---- MODULE Spec2Model ----
(***************************************************************************)
(* Document context caching (src/tools/context_cache.py), lesson-plan      *)
(* schema validation (src/schemas/lesson_plan.py) and the generation       *)
(* helper (src/agents/curriculum_agent.py) as state machines.              *)
(*                                                                         *)
(* Spec       staging of files into the blob store and the life cycle of   *)
(*            context caches (upload_files_to_gcs, create_context_cache,   *)
(*            get_cache_info, delete_cache, expiry by the service).        *)
(* SpecPeriod construction of one LecturePeriod from a drafted timeline.   *)
(* SpecPlan   construction of a CompleteLessonPlan from a drafted          *)
(*            candidate (request plus lectures).                           *)
(* SpecGen    one generation attempt after another                         *)
(*            (generate_lesson_plan_from_request).                         *)
(* SpecRetry  a caller that stages one batch again after each failure.     *)
(* SpecRace   two upload_files_to_gcs calls running concurrently.          *)
(* SpecHash   _compute_file_hash applied to one file after another.        *)
(* SpecRequest  construction of one LessonPlanRequest after another.       *)
(* SpecAssign  constructed requests whose fields are assigned afterwards.  *)
(* SpecClarification  construction of a ClarificationRequest from a        *)
(*            drafted candidate.                                           *)
(* SpecSettings  construction of Settings (src/config/settings.py) in one  *)
(*            environment after another.                                   *)
(* SpecAccessor  calls of get_settings, the singleton accessor.            *)
(* SpecSinks  runs of either sink of local files: upload_files_to_gcs or   *)
(*            upload_to_datastore (src/tools/datastore_upload.py).         *)
(***************************************************************************)
EXTENDS Integers, Sequences, FiniteSets, TLC

VARIABLES
    blobs,      \* the bucket: blob name -> bytes stored under it
    putCount,   \* blob name -> number of completed upload_from_filename calls
    staged,     \* history: every (bytes, filename, uri) a stage call returned
    caches,     \* the managed-context service: cache id -> handle record
    call,       \* the context-cache operation in progress or last returned
    period,     \* the LecturePeriod draft and the outcome of constructing it
    plan,       \* the CompleteLessonPlan candidate and the outcome
    gen,        \* the generation attempt: request, prompt, queries, result
    hashing,    \* the last two files _compute_file_hash was applied to
    documents,  \* the search datastore: ids of the documents of its default branch
    ds,         \* the upload_to_datastore call in progress or last returned
    req,        \* the LessonPlanRequest candidate and the outcome of constructing it
    clar,       \* the ClarificationRequest candidate and the outcome of constructing it
    conf,       \* the environment Settings was last constructed from, and the outcome
    race,       \* two concurrent upload_files_to_gcs calls, each with its file and position
    _settings   \* the module-wide singleton of settings.py and the outcome of the last get_settings call

vars == <<blobs, putCount, staged, caches, call, period, plan, gen, hashing, documents, ds, req, clar, conf, race, _settings>>

(***************************************************************************)
(* Bounds of the model.                                                    *)
(***************************************************************************)
MaxFiles == 2       \* longest files list handed to one call
MaxCaches == 1      \* caches the service is asked to create in one run

(***************************************************************************)
(* Local files.  A Path has a directory, a stem and a suffix; the local    *)
(* file system either holds bytes under it or does not.                    *)
(***************************************************************************)
BytesA == <<1, 2>>
BytesB == <<2, 1>>

LocalFiles ==
    { [dir |-> "a", stem |-> "slides", suffix |-> ".pdf",  present |-> TRUE,  bytes |-> BytesA],
      [dir |-> "b", stem |-> "slides", suffix |-> ".pdf",  present |-> TRUE,  bytes |-> BytesA],
      [dir |-> "a", stem |-> "notes",  suffix |-> ".PDF",  present |-> TRUE,  bytes |-> BytesA],
      [dir |-> "c", stem |-> "slides", suffix |-> ".pdf",  present |-> TRUE,  bytes |-> BytesB],
      [dir |-> "a", stem |-> "page",   suffix |-> ".html", present |-> TRUE,  bytes |-> BytesA],
      [dir |-> "a", stem |-> "gone",   suffix |-> ".pdf",  present |-> FALSE, bytes |-> <<>>] }

\* Path.name
FileName(f) == f.stem \o f.suffix

\* str(Path)
PathStr(f) == f.dir \o "/" \o FileName(f)

\* str.lower() on the suffixes of the model
Lower(s) ==
    CASE s = ".PDF" -> ".pdf"
      [] s = ".HTML" -> ".html"
      [] OTHER -> s

\* a variant of the staging allow-list that lets .html through
SUPPORTED_EXTENSIONS_HTML == {".pdf", ".pptx", ".docx", ".txt", ".md", ".html"}

SUPPORTED_EXTENSIONS == {".pdf", ".pptx", ".docx", ".txt", ".md"}

BUCKET_NAME == "teacher-assistant-uploads"

SPECIALIST_MODEL == "gemini-2.0-flash-exp"

\* timedelta(hours=1), in seconds
DEFAULT_CACHE_TTL == 3600

(***************************************************************************)
(* _compute_file_hash: the file is read in blocks of 4096 bytes and each   *)
(* block is folded into the running digest; the digest is returned as a    *)
(* hex string.  SHA-256 is represented by a 16-bit order-sensitive fold.   *)
(***************************************************************************)
BLOCK_SIZE == 4096

RECURSIVE Blocks(_)
Blocks(bytes) ==
    IF bytes = <<>> THEN <<>>
    ELSE IF Len(bytes) <= BLOCK_SIZE THEN <<bytes>>
    ELSE <<SubSeq(bytes, 1, BLOCK_SIZE)>> \o Blocks(SubSeq(bytes, BLOCK_SIZE + 1, Len(bytes)))

RECURSIVE HashUpdate(_, _)
HashUpdate(h, block) ==
    IF block = <<>> THEN h
    ELSE HashUpdate((h * 31 + Head(block) + 7) % 65536, Tail(block))

RECURSIVE HashBlocks(_, _)
HashBlocks(h, bs) ==
    IF bs = <<>> THEN h ELSE HashBlocks(HashUpdate(h, Head(bs)), Tail(bs))

HexDigit(d) ==
    CASE d = 0 -> "0" [] d = 1 -> "1" [] d = 2 -> "2" [] d = 3 -> "3"
      [] d = 4 -> "4" [] d = 5 -> "5" [] d = 6 -> "6" [] d = 7 -> "7"
      [] d = 8 -> "8" [] d = 9 -> "9" [] d = 10 -> "a" [] d = 11 -> "b"
      [] d = 12 -> "c" [] d = 13 -> "d" [] d = 14 -> "e" [] OTHER -> "f"

HexDigest(h) ==
    HexDigit((h \div 4096) % 16) \o HexDigit((h \div 256) % 16)
        \o HexDigit((h \div 16) % 16) \o HexDigit(h % 16)

\* a variant that folds the length of the file's name into the digest
compute_file_hash_named(f) ==
    HexDigest(HashBlocks(40503 + Len(f.stem), Blocks(f.bytes)))

compute_file_hash(f) == HexDigest(HashBlocks(40503, Blocks(f.bytes)))

(***************************************************************************)
(* _compute_file_hash applied to one file after another: files of every    *)
(* content up to MaxBytes bytes, under two names in two directories.       *)
(***************************************************************************)
MaxBytes == 2       \* longest content that is hashed

ByteValues == {1, 2}

ContentsUpTo(n) == UNION { [1..m -> ByteValues] : m \in 0..n }

HashedFiles ==
    { [dir |-> d, stem |-> s, suffix |-> ".pdf", present |-> TRUE, bytes |-> b] :
        d \in {"a", "b"}, s \in {"slides", "notes"}, b \in ContentsUpTo(MaxBytes) }

NoDigest == [hashed |-> FALSE, path |-> "", bytes |-> <<>>, digest |-> ""]

NewHashing == [prev |-> NoDigest, cur |-> NoDigest]

\* _compute_file_hash(file_path) is called and returns the hex digest
HashFile ==
    /\ \E f \in HashedFiles :
         hashing' = [prev |-> hashing.cur,
                     cur |-> [hashed |-> TRUE, path |-> PathStr(f), bytes |-> f.bytes,
                              digest |-> compute_file_hash(f)]]
    /\ UNCHANGED <<blobs, putCount, staged, caches, call, period, plan, gen, documents, ds, req, clar, conf, race, _settings>>

(***************************************************************************)
(* Errors are chains of frames, outermost first: `raise X(...) from e`     *)
(* puts the frame of X in front of the chain of e.                         *)
(***************************************************************************)
Frame(kind, msg, arg) == [kind |-> kind, msg |-> msg, arg |-> arg]

Wrap(kind, msg, chain) == <<Frame(kind, msg, chain[1].msg)>> \o chain

NoInfo == [name |-> 0, model |-> "", expire_time |-> 0, display_name |-> ""]

NoArgs == [called |-> FALSE, contents |-> <<>>, ttl |-> 0, display_name |-> "", model_name |-> ""]

NoResult == [state |-> "none", uris |-> <<>>, cache |-> 0, info |-> NoInfo, error |-> <<>>]

Raised(chain) == [NoResult EXCEPT !.state = "raised", !.error = chain]

\* one call to a remote collaborator, as the call's log records it
Remote(op, blob, cache, ok) == [op |-> op, blob |-> blob, cache |-> cache, ok |-> ok]

IdleCall ==
    [op |-> "none", pc |-> "idle", files |-> <<>>, gcs_uris |-> <<>>, ttl |-> DEFAULT_CACHE_TTL,
     target |-> 0, pre |-> "none", fault |-> "none", remote |-> <<>>, entryCaches |-> 0,
     args |-> NoArgs, result |-> NoResult,
     \* a caller that retries: the batch it stages, the attempt it is at, and
     \* the blobs its earlier attempts uploaded
     batch |-> <<>>, attempt |-> 0, prior |-> {}]

(***************************************************************************)
(* upload_files_to_gcs, one iteration of `for file_path in files`.         *)
(***************************************************************************)
\* a variant that keys a blob by its filename alone
BlobNameNoHash(file_hash, name) == "lesson-materials/" \o name

BlobName(file_hash, name) == "lesson-materials/" \o file_hash \o "/" \o name

GcsUri(bucket_name, blob_name) == "gs://" \o bucket_name \o "/" \o blob_name

\* a variant whose existence check never finds the blob
BlobExistsNever(store, blob_name) == FALSE

BlobExists(store, blob_name) == blob_name \in DOMAIN store

\* a variant that uploads without looking at the answer of blob.exists()
ShouldUploadAlways(existing) == TRUE

\* `if not blob.exists(): blob.upload_from_filename(...)`
ShouldUpload(existing) == ~existing

\* a variant that appends inside the upload branch only
AppendUriIfUploaded(uris, uri, uploaded) == IF uploaded THEN Append(uris, uri) ELSE uris

\* gcs_uris.append(gcs_uri), after the upload-or-skip branch
AppendUri(uris, uri, uploaded) == Append(uris, uri)

\* a variant whose upload leaves only the uploaded object in the bucket
PutAlone(store, blob_name, bytes) == [k \in {blob_name} |-> bytes]

\* a variant whose upload appends to an object that is already there
PutAppending(store, blob_name, bytes) ==
    [k \in DOMAIN store \cup {blob_name} |->
        IF k = blob_name
        THEN (IF k \in DOMAIN store THEN store[k] \o bytes ELSE bytes)
        ELSE store[k]]

Put(store, blob_name, bytes) ==
    [k \in DOMAIN store \cup {blob_name} |-> IF k = blob_name THEN bytes ELSE store[k]]

Bump(counts, blob_name) ==
    [k \in DOMAIN counts \cup {blob_name} |->
        IF k = blob_name
        THEN (IF k \in DOMAIN counts THEN counts[k] ELSE 0) + 1
        ELSE counts[k]]

\* The outcome of one iteration: what it raised (inside the try block), the
\* remote calls it made, whether it uploaded, and the uri it appended.
StageStep(store, f, fault) ==
    LET blob_name == BlobName(compute_file_hash(f), FileName(f))
        uri == GcsUri(BUCKET_NAME, blob_name)
        existing == BlobExists(store, blob_name)
        none == [raised |-> <<>>, remote |-> <<>>, uploaded |-> FALSE,
                 blob_name |-> blob_name, uri |-> uri]
    IN  IF ~f.present
        THEN [none EXCEPT !.raised =
                <<Frame("ContextCacheError", "File not found", PathStr(f))>>]
        ELSE IF Lower(f.suffix) \notin SUPPORTED_EXTENSIONS
        THEN [none EXCEPT !.raised =
                <<Frame("ContextCacheError", "Unsupported file type", f.suffix)>>]
        ELSE IF fault = "exists"
        THEN [none EXCEPT !.raised = <<Frame("TransportError", "blob.exists failed", blob_name)>>,
                          !.remote = <<Remote("exists", blob_name, 0, FALSE)>>]
        ELSE IF ShouldUpload(existing)
        THEN IF fault = "put"
             THEN [none EXCEPT
                     !.raised = <<Frame("TransportError", "upload failed", blob_name)>>,
                     !.remote = <<Remote("exists", blob_name, 0, TRUE),
                                  Remote("put", blob_name, 0, FALSE)>>]
             ELSE [none EXCEPT
                     !.uploaded = TRUE,
                     !.remote = <<Remote("exists", blob_name, 0, TRUE),
                                  Remote("put", blob_name, 0, TRUE)>>]
        ELSE [none EXCEPT !.remote = <<Remote("exists", blob_name, 0, TRUE)>>]

\* a variant that lets the exception of the loop body escape unwrapped
UploadFailureReraise(chain) == chain

\* `except Exception as e: raise ContextCacheError(f"GCS upload failed: {e}") from e`
UploadFailure(chain) == Wrap("ContextCacheError", "GCS upload failed", chain)

\* a variant that lets the cause through as it is
CreateFailureBare(chain) == chain

\* `except Exception as e: raise ContextCacheError(f"Cache creation failed: {e}") from e`
CreateFailure(chain) == Wrap("ContextCacheError", "Cache creation failed", chain)

Faults == {"none", "exists", "put"}

TTLs == {-1, 0, DEFAULT_CACHE_TTL}

Free == call.pc \in {"idle", "done"}

\* upload_files_to_gcs(files, settings) is called
BeginStage ==
    /\ Free
    /\ call' = [IdleCall EXCEPT !.op = "stage", !.pc = "loop", !.entryCaches = Len(caches)]
    /\ UNCHANGED <<blobs, putCount, staged, caches, period, plan, gen, hashing, documents, ds, req, clar, conf, race, _settings>>

\* create_context_cache(files, settings, ttl=ttl) is called
BeginCreate ==
    /\ Free
    /\ Len(caches) < MaxCaches
    /\ \E ttl \in TTLs :
         call' = [IdleCall EXCEPT !.op = "create", !.pc = "loop", !.ttl = ttl,
                                  !.entryCaches = Len(caches)]
    /\ UNCHANGED <<blobs, putCount, staged, caches, period, plan, gen, hashing, documents, ds, req, clar, conf, race, _settings>>

\* the loop body for file f, with the remote side answering as `fault` says
StageOne(f, fault) ==
    LET s == StageStep(blobs, f, fault)
        files == Append(call.files, f)
        log == call.remote \o s.remote
    IN  IF s.raised # <<>>
        THEN /\ call' = [call EXCEPT
                   !.files = files, !.remote = log, !.fault = fault, !.pc = "done",
                   !.result = Raised(IF call.op = "create"
                                     THEN CreateFailure(UploadFailure(s.raised))
                                     ELSE UploadFailure(s.raised))]
             /\ UNCHANGED <<blobs, putCount>>
        ELSE /\ call' = [call EXCEPT
                   !.files = files, !.remote = log,
                   !.gcs_uris = AppendUri(call.gcs_uris, s.uri, s.uploaded)]
             /\ blobs' = IF s.uploaded THEN Put(blobs, s.blob_name, f.bytes) ELSE blobs
             /\ putCount' = IF s.uploaded THEN Bump(putCount, s.blob_name) ELSE putCount

\* the next file of the list goes through the loop body
StageFile ==
    /\ call.pc = "loop"
    /\ Len(call.files) < MaxFiles
    /\ \E f \in LocalFiles, fault \in Faults : StageOne(f, fault)
    /\ UNCHANGED <<staged, caches, period, plan, gen, hashing, documents, ds, req, clar, conf, race, _settings>>

StagedEntries(files, uris) ==
    { [bytes |-> files[i].bytes, name |-> FileName(files[i]), uri |-> uris[i]] :
        i \in (1..Len(files)) \cap (1..Len(uris)) }

\* the list is exhausted: `return gcs_uris`
ReturnStage ==
    /\ call.pc = "loop"
    /\ call.op = "stage"
    /\ call' = [call EXCEPT !.pc = "done",
                            !.result = [NoResult EXCEPT !.state = "returned",
                                                        !.uris = call.gcs_uris]]
    /\ staged' = staged \cup StagedEntries(call.files, call.gcs_uris)
    /\ UNCHANGED <<blobs, putCount, caches, period, plan, gen, hashing, documents, ds, req, clar, conf, race, _settings>>

(***************************************************************************)
(* A caller that stages one batch and, when the call raises, stages the    *)
(* same batch again.                                                       *)
(***************************************************************************)
MaxAttempts == 3    \* calls the retrying caller makes for one batch

\* the blobs whose upload the call completed
UploadedBy(log) == { log[i].blob : i \in { j \in 1..Len(log) : log[j].op = "put" /\ log[j].ok } }

\* the caller settles the batch it is going to stage, file by file
DraftBatch ==
    /\ call.pc = "idle"
    /\ Len(call.batch) < MaxFiles
    /\ \E f \in LocalFiles : call' = [call EXCEPT !.batch = Append(call.batch, f)]
    /\ UNCHANGED <<blobs, putCount, staged, caches, period, plan, gen, hashing, documents, ds, req, clar, conf, race, _settings>>

\* upload_files_to_gcs(batch, settings): the first attempt, or the next one
\* after an attempt that raised
BeginAttempt ==
    /\ call.batch # <<>>
    /\ call.pc = "idle" \/ (call.pc = "done" /\ call.result.state = "raised")
    /\ call.attempt < MaxAttempts
    /\ call' = [IdleCall EXCEPT !.op = "stage", !.pc = "loop", !.entryCaches = Len(caches),
                                !.batch = call.batch, !.attempt = call.attempt + 1,
                                !.prior = call.prior \cup UploadedBy(call.remote)]
    /\ UNCHANGED <<blobs, putCount, staged, caches, period, plan, gen, hashing, documents, ds, req, clar, conf, race, _settings>>

\* the next file of the batch goes through the loop body
AttemptFile ==
    /\ call.pc = "loop"
    /\ Len(call.files) < Len(call.batch)
    /\ \E fault \in Faults : StageOne(call.batch[Len(call.files) + 1], fault)
    /\ UNCHANGED <<staged, caches, period, plan, gen, hashing, documents, ds, req, clar, conf, race, _settings>>

\* the batch is exhausted: `return gcs_uris`
AttemptReturn ==
    /\ Len(call.files) = Len(call.batch)
    /\ ReturnStage

\* upload_files_to_gcs run on `files` with no failure, from the given store
RECURSIVE FailureFree(_, _, _)
FailureFree(store, files, uris) ==
    IF files = <<>> THEN [store |-> store, uris |-> uris]
    ELSE LET s == StageStep(store, Head(files), "none")
         IN  FailureFree(IF s.uploaded THEN Put(store, s.blob_name, Head(files).bytes) ELSE store,
                         Tail(files), AppendUri(uris, s.uri, s.uploaded))

(***************************************************************************)
(* Two upload_files_to_gcs calls that run concurrently, each on one file:  *)
(* blob.exists() and blob.upload_from_filename() are separate remote       *)
(* calls, and the other caller may run between them.  An upload replaces   *)
(* the object under its name as a whole.                                   *)
(***************************************************************************)
Callers == {1, 2}

NewRace ==
    [p \in Callers |->
        [pc |-> "idle", file |-> CHOOSE f \in LocalFiles : ~f.present, blob_name |-> "",
         existing |-> FALSE, uploaded |-> FALSE, uri |-> ""]]

\* the local checks passed and the blob name is computed
RaceBegin(p) ==
    /\ race[p].pc = "idle"
    /\ \E f \in {g \in LocalFiles : g.present /\ Lower(g.suffix) \in SUPPORTED_EXTENSIONS} :
         race' = [race EXCEPT ![p] = [@ EXCEPT
                     !.pc = "named", !.file = f,
                     !.blob_name = BlobName(compute_file_hash(f), FileName(f))]]
    /\ UNCHANGED <<blobs, putCount, staged, caches, call, period, plan, gen, hashing,
                   documents, ds, req, clar, conf, _settings>>

\* blob.exists() answers
RaceExists(p) ==
    /\ race[p].pc = "named"
    /\ race' = [race EXCEPT ![p] = [@ EXCEPT
                   !.pc = "checked", !.existing = BlobExists(blobs, race[p].blob_name)]]
    /\ UNCHANGED <<blobs, putCount, staged, caches, call, period, plan, gen, hashing,
                   documents, ds, req, clar, conf, _settings>>

\* the upload-or-skip branch, then the uri is appended and returned
RaceUpload(p) ==
    /\ race[p].pc = "checked"
    /\ LET up == ShouldUpload(race[p].existing)
       IN  /\ blobs' = IF up THEN Put(blobs, race[p].blob_name, race[p].file.bytes) ELSE blobs
           /\ putCount' = IF up THEN Bump(putCount, race[p].blob_name) ELSE putCount
           /\ race' = [race EXCEPT ![p] = [@ EXCEPT
                          !.pc = "done", !.uploaded = up,
                          !.uri = GcsUri(BUCKET_NAME, race[p].blob_name)]]
    /\ UNCHANGED <<staged, caches, call, period, plan, gen, hashing, documents, ds, req,
                   clar, conf, _settings>>

(***************************************************************************)
(* The managed-context service behind vertexai.preview.caching: a cache    *)
(* that expired or was deleted answers a lookup like one that never        *)
(* existed.                                                                *)
(***************************************************************************)
CacheNames == 1..(MaxCaches + 1)

HandleState(store, name) == IF name \in 1..Len(store) THEN store[name].state ELSE "absent"

NotFound(name) == <<Frame("NotFound", "404 cached content not found", ToString(name))>>

\* a variant that references the staged files in reverse order
ContentsReversed(gcs_uris) ==
    [i \in 1..Len(gcs_uris) |->
        [file_uri |-> gcs_uris[Len(gcs_uris) + 1 - i], mime_type |-> "application/pdf"]]

\* Content(parts=[Part.from_uri(uri, ...)]) for uri in gcs_uris
Contents(gcs_uris) == [i \in 1..Len(gcs_uris) |-> [file_uri |-> gcs_uris[i], mime_type |-> "application/pdf"]]

\* a variant that builds the display name without indexing the list
DisplayNameNoIndex(files) ==
    [raised |-> <<>>,
     value |-> IF files = <<>> THEN "lesson-materials-" ELSE "lesson-materials-" \o files[1].stem]

\* display_name=f"lesson-materials-{Path(files[0]).stem}": files[0] raises
\* IndexError on an empty list while the arguments of create are evaluated
DisplayName(files) ==
    IF files = <<>>
    THEN [raised |-> <<Frame("IndexError", "list index out of range", "files[0]")>>, value |-> ""]
    ELSE [raised |-> <<>>, value |-> "lesson-materials-" \o files[1].stem]

\* caching.CachedContent.create(...) at the service: a time-to-live that is
\* not positive gives no expire time in the future and is refused
ServiceCreate(store, args, fault) ==
    IF fault = "create"
    THEN [raised |-> <<Frame("TransportError", "create failed", args.display_name)>>,
          store |-> store, name |-> 0]
    ELSE IF args.ttl <= 0
    THEN [raised |-> <<Frame("InvalidArgument", "ttl must be positive", args.display_name)>>,
          store |-> store, name |-> 0]
    ELSE [raised |-> <<>>,
          store |-> Append(store, [state |-> "live", display_name |-> args.display_name,
                                   model_name |-> args.model_name, ttl |-> args.ttl]),
          name |-> Len(store) + 1]

\* create_context_cache after `gcs_uris = await upload_files_to_gcs(files, settings)`
\* returned: vertexai.init, the contents, CachedContent.create, `return cache.name`
FinishCreate ==
    /\ call.pc = "loop"
    /\ call.op = "create"
    /\ staged' = staged \cup StagedEntries(call.files, call.gcs_uris)
    /\ \E fault \in {"none", "create"} :
         LET dn == DisplayName(call.files)
             args == [called |-> TRUE, contents |-> Contents(call.gcs_uris), ttl |-> call.ttl,
                      display_name |-> dn.value, model_name |-> SPECIALIST_MODEL]
             made == ServiceCreate(caches, args, fault)
         IN  IF dn.raised # <<>>
             THEN /\ call' = [call EXCEPT !.pc = "done",
                                          !.result = Raised(CreateFailure(dn.raised))]
                  /\ UNCHANGED caches
             ELSE /\ call' = [call EXCEPT
                        !.pc = "done", !.fault = fault, !.args = args,
                        !.remote = Append(call.remote,
                                          Remote("cache.create", "", made.name, made.raised = <<>>)),
                        !.result = IF made.raised # <<>>
                                   THEN Raised(CreateFailure(made.raised))
                                   ELSE [NoResult EXCEPT !.state = "returned",
                                                         !.cache = made.name]]
                  /\ caches' = made.store
    /\ UNCHANGED <<blobs, putCount, period, plan, gen, hashing, documents, ds, req, clar, conf, race, _settings>>

\* caching.CachedContent(cached_content_name=cache_name): the constructor
\* fetches the resource
ServiceGet(store, name, fault) ==
    IF fault = "get"
    THEN [raised |-> <<Frame("TransportError", "get failed", ToString(name))>>]
    ELSE IF HandleState(store, name) # "live"
    THEN [raised |-> NotFound(name)]
    ELSE [raised |-> <<>>]

\* a variant that reads whatever record the service ever held under the name
CacheInfoStale(store, name) ==
    IF name \in 1..Len(store)
    THEN [name |-> name, model |-> store[name].model_name, expire_time |-> store[name].ttl,
          display_name |-> store[name].display_name]
    ELSE NoInfo

\* the dictionary get_cache_info returns
CacheInfo(store, name) ==
    [name |-> name,
     model |-> store[name].model_name,
     expire_time |-> store[name].ttl,
     display_name |-> IF store[name].display_name # "" THEN store[name].display_name ELSE "N/A"]

\* a variant that answers from the stale record instead of failing
GetCacheInfoAnswersStale(store, name, fault) ==
    IF fault = "get"
    THEN Raised(Wrap("ContextCacheError", "Failed to retrieve cache info",
                     ServiceGet(store, name, fault).raised))
    ELSE [NoResult EXCEPT !.state = "returned", !.info = CacheInfoStale(store, name)]

\* get_cache_info(cache_name, settings): the lookup, then the dictionary
GetCacheInfoResult(store, name, fault) ==
    LET got == ServiceGet(store, name, fault)
    IN  IF got.raised # <<>>
        THEN Raised(Wrap("ContextCacheError", "Failed to retrieve cache info", got.raised))
        ELSE [NoResult EXCEPT !.state = "returned", !.info = CacheInfo(store, name)]

get_cache_info ==
    /\ Free
    /\ \E name \in CacheNames, fault \in {"none", "get"} :
         call' = [IdleCall EXCEPT
                    !.op = "info", !.pc = "done", !.target = name, !.fault = fault,
                    !.pre = HandleState(caches, name), !.entryCaches = Len(caches),
                    !.remote = <<Remote("cache.get", "", name,
                                        ServiceGet(caches, name, fault).raised = <<>>)>>,
                    !.result = GetCacheInfoResult(caches, name, fault)]
    /\ UNCHANGED <<blobs, putCount, staged, caches, period, plan, gen, hashing, documents, ds, req, clar, conf, race, _settings>>

\* delete_cache(cache_name, settings): the lookup, then cache.delete()
DeleteCacheResult(store, name, fault) ==
    LET got == ServiceGet(store, name, fault)
    IN  IF got.raised # <<>>
        THEN [result |-> Raised(Wrap("ContextCacheError", "Cache deletion failed", got.raised)),
              remote |-> <<Remote("cache.get", "", name, FALSE)>>,
              store |-> store]
        ELSE IF fault = "delete"
        THEN [result |-> Raised(Wrap("ContextCacheError", "Cache deletion failed",
                                     <<Frame("TransportError", "delete failed", ToString(name))>>)),
              remote |-> <<Remote("cache.get", "", name, TRUE),
                           Remote("cache.delete", "", name, FALSE)>>,
              store |-> store]
        ELSE [result |-> [NoResult EXCEPT !.state = "returned"],
              remote |-> <<Remote("cache.get", "", name, TRUE),
                           Remote("cache.delete", "", name, TRUE)>>,
              store |-> [store EXCEPT ![name].state = "deleted"]]

delete_cache ==
    /\ Free
    /\ \E name \in CacheNames, fault \in {"none", "get", "delete"} :
         LET d == DeleteCacheResult(caches, name, fault)
         IN  /\ call' = [IdleCall EXCEPT
                           !.op = "delete", !.pc = "done", !.target = name, !.fault = fault,
                           !.pre = HandleState(caches, name), !.entryCaches = Len(caches),
                           !.remote = d.remote, !.result = d.result]
             /\ caches' = d.store
    /\ UNCHANGED <<blobs, putCount, staged, period, plan, gen, hashing, documents, ds, req, clar, conf, race, _settings>>

\* the service drops a cache whose time-to-live has passed
Expire ==
    /\ \E name \in 1..Len(caches) :
         /\ caches[name].state = "live"
         /\ caches' = [caches EXCEPT ![name].state = "expired"]
    /\ UNCHANGED <<blobs, putCount, staged, call, period, plan, gen, hashing, documents, ds, req, clar, conf, race, _settings>>

(***************************************************************************)
(* Schemas (pydantic): a field constraint or a validator that fails adds   *)
(* an error; the errors of all fields are collected and the value exists   *)
(* only if there are none.                                                 *)
(***************************************************************************)
MaxSegments == 3    \* longest drafted timeline
MaxVaried == 2      \* positions of a candidate plan that take any sample lecture

Err(field, index, type, a, b) == [field |-> field, index |-> index, type |-> type, a |-> a, b |-> b]

\* a variant that excludes the bound itself
GeStrict(field, index, v, bound) ==
    IF v > bound THEN {} ELSE {Err(field, index, "greater_than", v, bound)}

\* Field(ge=bound)
Ge(field, index, v, bound) ==
    IF v >= bound THEN {} ELSE {Err(field, index, "greater_than_equal", v, bound)}

\* Field(le=bound)
Le(field, index, v, bound) ==
    IF v <= bound THEN {} ELSE {Err(field, index, "less_than_equal", v, bound)}

\* a variant that asks for one item whatever the declared minimum
MinLengthOne(field, index, n, bound) ==
    IF n >= 1 THEN {} ELSE {Err(field, index, "too_short", n, bound)}

\* a variant without the length constraint
MinLengthUnchecked(field, index, n, bound) == {}

\* Field(min_length=bound), given the length
MinLength(field, index, n, bound) ==
    IF n >= bound THEN {} ELSE {Err(field, index, "too_short", n, bound)}

\* TimelineSegment.end_minute
end_minute(s) == s.start_minute + s.duration

\* TimelineSegment: start_minute ge=0, duration ge=1
TimelineSegmentErrors(s, index) ==
    Ge("detailed_timeline.start_minute", index, s.start_minute, 0)
        \cup Ge("detailed_timeline.duration", index, s.duration, 1)

\* sorted(segments, key=lambda x: x.start_minute): stable, an element goes
\* behind the elements whose key is not larger
RECURSIVE InsertByStart(_, _)
InsertByStart(sorted, s) ==
    IF sorted = <<>> THEN <<s>>
    ELSE IF Head(sorted).start_minute <= s.start_minute
         THEN <<Head(sorted)>> \o InsertByStart(Tail(sorted), s)
         ELSE <<s>> \o sorted

\* a variant that keeps the order the segments were given in
KeepOrder(sorted, rest) == sorted \o rest

RECURSIVE SortByStart(_, _)
SortByStart(sorted, rest) ==
    IF rest = <<>> THEN sorted
    ELSE SortByStart(InsertByStart(sorted, Head(rest)), Tail(rest))

\* the first i of range(len - 1) whose pair is not contiguous, 0 if none
FirstGap(segs) ==
    LET bad == {i \in 1..(Len(segs) - 1) : end_minute(segs[i]) # segs[i + 1].start_minute}
    IN  IF bad = {} THEN 0 ELSE CHOOSE i \in bad : \A j \in bad : i <= j

\* LecturePeriod.validate_timeline_continuity: the empty check and the loop
\* over the adjacent pairs of `checked`; `returned` is what is returned
ContinuityOf(checked, returned) ==
    IF checked = <<>>
    THEN [raised |-> {Err("detailed_timeline", 0, "Timeline cannot be empty", 0, 0)},
          value |-> <<>>]
    ELSE LET i == FirstGap(checked)
         IN  IF i # 0
             THEN [raised |-> {Err("detailed_timeline", 0, "Timeline gap detected",
                                   end_minute(checked[i]), checked[i + 1].start_minute)},
                   value |-> <<>>]
             ELSE [raised |-> {}, value |-> returned]

\* a variant that checks the segments in the order given
validate_timeline_unsorted(segments) == ContinuityOf(segments, segments)

\* LecturePeriod.validate_timeline_continuity: sorted_segments is checked
\* and returned
validate_timeline_continuity(segments) ==
    ContinuityOf(SortByStart(<<>>, segments), SortByStart(<<>>, segments))

\* the field detailed_timeline: the items, then the validator
TimelineField(segments) ==
    LET items == UNION {TimelineSegmentErrors(segments[i], i) : i \in 1..Len(segments)}
        v == validate_timeline_continuity(segments)
    IN  IF items # {} THEN [errors |-> items, value |-> <<>>]
        ELSE [errors |-> v.raised, value |-> v.value]

\* LecturePeriod(**raw): learning_objectives min_length=2, detailed_timeline,
\* detailed_activities min_length=1
LecturePeriod(raw, index) ==
    LET t == TimelineField(raw.detailed_timeline)
        errors == MinLength("learning_objectives", index, raw.learning_objectives, 2)
                    \cup {[e EXCEPT !.index = IF index = 0 THEN e.index ELSE index] : e \in t.errors}
                    \cup MinLength("detailed_activities", index, raw.detailed_activities, 1)
    IN  [errors |-> errors,
         value |-> IF errors = {} THEN [raw EXCEPT !.detailed_timeline = t.value]
                   ELSE [raw EXCEPT !.detailed_timeline = <<>>]]

RawSegments == [start_minute : -1..3, duration : 0..2]

NoPeriod == [learning_objectives |-> 0, detailed_activities |-> 0, detailed_timeline |-> <<>>]

NewPeriod ==
    [raw |-> NoPeriod, state |-> "draft", errors |-> {}, value |-> NoPeriod]

\* a candidate lecture period is started: how many objectives and activities
DraftPeriod ==
    /\ \E o \in 1..2, a \in 0..1 :
         period' = [NewPeriod EXCEPT !.raw.learning_objectives = o, !.raw.detailed_activities = a]
    /\ UNCHANGED <<blobs, putCount, staged, caches, call, plan, gen, hashing, documents, ds, req, clar, conf, race, _settings>>

\* the candidate gets its next timeline segment
AppendSegment ==
    /\ period.state = "draft"
    /\ Len(period.raw.detailed_timeline) < MaxSegments
    /\ \E s \in RawSegments :
         period' = [period EXCEPT !.raw.detailed_timeline = Append(@, s)]
    /\ UNCHANGED <<blobs, putCount, staged, caches, call, plan, gen, hashing, documents, ds, req, clar, conf, race, _settings>>

\* LecturePeriod(...) is constructed from the candidate
ConstructPeriod ==
    /\ period.state = "draft"
    /\ LET p == LecturePeriod(period.raw, 0)
       IN  period' = [period EXCEPT
                        !.state = IF p.errors = {} THEN "accepted" ELSE "rejected",
                        !.errors = p.errors,
                        !.value = IF p.errors = {} THEN p.value ELSE NoPeriod]
    /\ UNCHANGED <<blobs, putCount, staged, caches, call, plan, gen, hashing, documents, ds, req, clar, conf, race, _settings>>

(***************************************************************************)
(* LessonPlanRequest and CompleteLessonPlan.                               *)
(***************************************************************************)
MIN_TOPIC_LENGTH == 3
MIN_LECTURE_DURATION == 30
MAX_LECTURE_DURATION == 180
MIN_TOTAL_PERIODS == 1
MAX_TOTAL_PERIODS == 30

\* LessonPlanRequest(**raw): the declared field bounds
LessonPlanRequest(raw) ==
    MinLength("request.topic", 0, Len(raw.topic), MIN_TOPIC_LENGTH)
        \cup Ge("request.lecture_duration", 0, raw.lecture_duration, MIN_LECTURE_DURATION)
        \cup Le("request.lecture_duration", 0, raw.lecture_duration, MAX_LECTURE_DURATION)
        \cup Ge("request.total_periods", 0, raw.total_periods, MIN_TOTAL_PERIODS)
        \cup Le("request.total_periods", 0, raw.total_periods, MAX_TOTAL_PERIODS)

\* a variant that objects to too many lectures only
validate_lecture_count_atmost(lectures, has_request, request) ==
    IF has_request /\ Len(lectures) > request.total_periods
    THEN {Err("lectures", 0, "Expected lectures, got", request.total_periods, Len(lectures))}
    ELSE {}

\* CompleteLessonPlan.validate_lecture_count: info.data holds the request
\* only if the request validated
validate_lecture_count(lectures, has_request, request) ==
    IF has_request /\ Len(lectures) # request.total_periods
    THEN {Err("lectures", 0, "Expected lectures, got", request.total_periods, Len(lectures))}
    ELSE {}

\* a variant that stops at the first invalid lecture
LecturesFieldFirstOnly(raw_lectures, has_request, request) ==
    LET invalid == {i \in 1..Len(raw_lectures) : LecturePeriod(raw_lectures[i], i).errors # {}}
        short == MinLength("lectures", 0, Len(raw_lectures), 1)
    IN  IF invalid # {}
        THEN LecturePeriod(raw_lectures[CHOOSE i \in invalid : \A j \in invalid : i <= j],
                           CHOOSE i \in invalid : \A j \in invalid : i <= j).errors
        ELSE IF short # {} THEN short
        ELSE validate_lecture_count(raw_lectures, has_request, request)

\* the field lectures: the items, min_length=1, then the validator
LecturesField(raw_lectures, has_request, request) ==
    LET items == UNION {LecturePeriod(raw_lectures[i], i).errors : i \in 1..Len(raw_lectures)}
        short == MinLength("lectures", 0, Len(raw_lectures), 1)
    IN  IF items # {} THEN items
        ELSE IF short # {} THEN short
        ELSE validate_lecture_count(raw_lectures, has_request, request)

NoRequest == [topic |-> "", lecture_duration |-> 0, total_periods |-> 0]

NoPlan == [request |-> NoRequest, lectures |-> <<>>]

(***************************************************************************)
(* LessonPlanRequest constructed on its own, from well-typed candidate     *)
(* values on both sides of every declared bound.                           *)
(***************************************************************************)
RequestInputs ==
    [topic : {"", "ML", "Bio", "Biology"},
     lecture_duration : {0, 29, 30, 45, 180, 181},
     total_periods : {0, 1, 15, 30, 31}]

NewRequest == [raw |-> NoRequest, state |-> "none", errors |-> {}, value |-> NoRequest]

\* LessonPlanRequest(**raw): the value, or ValidationError with every
\* violated field
ConstructRequest ==
    /\ \E raw \in RequestInputs :
         LET errors == LessonPlanRequest(raw)
         IN  req' = [raw |-> raw,
                     state |-> IF errors = {} THEN "accepted" ELSE "rejected",
                     errors |-> errors,
                     value |-> IF errors = {} THEN raw ELSE NoRequest]
    /\ UNCHANGED <<blobs, putCount, staged, caches, call, period, plan, gen, hashing,
                   documents, ds, clar, conf, race, _settings>>

\* `request.<field> = v` on a constructed request: LessonPlanRequest declares
\* no model_config, so it is neither frozen nor validated on assignment,
\* and BaseModel.__setattr__ stores the value as it is
AssignField ==
    /\ req.state = "accepted"
    /\ \/ \E v \in {"", "ML", "Biology"} :
            req' = [req EXCEPT !.value = [@ EXCEPT !.topic = v]]
       \/ \E v \in {0, 29, 45, 181} :
            req' = [req EXCEPT !.value = [@ EXCEPT !.lecture_duration = v]]
       \/ \E v \in {0, 15, 31} :
            req' = [req EXCEPT !.value = [@ EXCEPT !.total_periods = v]]
    /\ UNCHANGED <<blobs, putCount, staged, caches, call, period, plan, gen, hashing,
                   documents, ds, clar, conf, race, _settings>>

\* CompleteLessonPlan(request=..., lectures=...)
CompleteLessonPlan(raw_request, raw_lectures) ==
    LET request_errors == LessonPlanRequest(raw_request)
        errors == request_errors
                    \cup LecturesField(raw_lectures, request_errors = {}, raw_request)
    IN  [errors |-> errors,
         value |-> IF errors = {}
                   THEN [request |-> raw_request,
                         lectures |-> [i \in 1..Len(raw_lectures) |->
                                          LecturePeriod(raw_lectures[i], i).value]]
                   ELSE NoPlan]

RawRequests ==
    [topic : {"ML", "Bio"}, lecture_duration : {29, 45, 181}, total_periods : {0, 1, 2, 3, 30, 31}]

Seg(start, duration) == [start_minute |-> start, duration |-> duration]

Lecture(objectives, activities, timeline) ==
    [learning_objectives |-> objectives, detailed_activities |-> activities,
     detailed_timeline |-> timeline]

GoodLecture == Lecture(2, 1, <<Seg(0, 20), Seg(20, 25)>>)

SampleLectures ==
    { GoodLecture,
      Lecture(2, 1, <<Seg(20, 25), Seg(0, 20)>>),     \* contiguous, out of order
      Lecture(2, 1, <<Seg(0, 20), Seg(25, 20)>>),     \* a gap of 5 minutes
      Lecture(1, 1, <<Seg(0, 45)>>),                  \* one objective
      Lecture(2, 0, <<>>),                            \* no activity, no segment
      Lecture(2, 1, <<Seg(5, 20)>>) }                 \* contiguous, minutes 5 to 25

\* the candidates a generator may put at the next position
LectureChoices(n) == IF n < MaxVaried THEN SampleLectures ELSE {GoodLecture}

NewPlan ==
    [request |-> NoRequest, lectures |-> <<>>, state |-> "draft", errors |-> {}, value |-> NoPlan]

\* a candidate plan is started for a request
DraftPlan ==
    /\ plan.state = "draft"
    /\ plan.lectures = <<>>
    /\ \E r \in RawRequests : plan' = [NewPlan EXCEPT !.request = r]
    /\ UNCHANGED <<blobs, putCount, staged, caches, call, period, gen, hashing, documents, ds, req, clar, conf, race, _settings>>

\* the candidate gets its next lecture
AppendLecture ==
    /\ plan.state = "draft"
    /\ Len(plan.lectures) <= MAX_TOTAL_PERIODS
    /\ \E l \in LectureChoices(Len(plan.lectures)) :
         plan' = [plan EXCEPT !.lectures = Append(@, l)]
    /\ UNCHANGED <<blobs, putCount, staged, caches, call, period, gen, hashing, documents, ds, req, clar, conf, race, _settings>>

\* CompleteLessonPlan(...) is constructed from the candidate
ConstructPlan ==
    /\ plan.state = "draft"
    /\ LET p == CompleteLessonPlan(plan.request, plan.lectures)
       IN  plan' = [plan EXCEPT
                      !.state = IF p.errors = {} THEN "accepted" ELSE "rejected",
                      !.errors = p.errors,
                      !.value = p.value]
    /\ UNCHANGED <<blobs, putCount, staged, caches, call, period, gen, hashing, documents, ds, req, clar, conf, race, _settings>>

(***************************************************************************)
(* generate_lesson_plan_from_request: the prompt is built from the         *)
(* request, sent to the agent once, and the text of the answer returned.   *)
(***************************************************************************)
GenRequests ==
    [topic : {"Photosynthesis"}, grade : {"9th Grade"}, lecture_duration : {45},
     total_periods : {1, 2}, difficulty : {"low", "hard"}, teaching_approach : {"mixed"},
     prior_knowledge : {"No prior knowledge assumed"}, lab_required : BOOLEAN,
     programming_language : {"", "Python"}, additional_context : {"", "Focus on industry"}]

\* a variant that keeps the conversation: the prompt of the previous attempt
\* comes first
BuildPromptWithHistory(request) ==
    gen.prompt \o <<"**Topic**: " \o request.topic,
                    "**Total Periods**: " \o ToString(request.total_periods)>>

\* the f-string and the `prompt +=` that follow it, one element per piece
BuildPrompt(request) ==
    <<"Generate a comprehensive lesson plan with the following requirements:",
      "**Topic**: " \o request.topic,
      "**Grade Level**: " \o request.grade,
      "**Lecture Duration**: " \o ToString(request.lecture_duration) \o " minutes",
      "**Total Periods**: " \o ToString(request.total_periods),
      "**Difficulty**: " \o request.difficulty,
      "**Teaching Approach**: " \o request.teaching_approach,
      "**Prior Knowledge**: " \o request.prior_knowledge>>
    \o (IF request.lab_required
        THEN <<"**Lab Required**: Yes"
                 \o (IF request.programming_language # ""
                     THEN " (Language: " \o request.programming_language \o ")"
                     ELSE "")>>
        ELSE <<>>)
    \o (IF request.additional_context # ""
        THEN <<"**Additional Context**: " \o request.additional_context>>
        ELSE <<>>)
    \o <<"Generate a complete lesson plan following the CompleteLessonPlan schema. Output valid JSON only.">>

\* a variant that accepts any questions list
ClarificationRequestAny(raw) == {}

\* ClarificationRequest(**raw): questions min_length=1
ClarificationRequest(raw) == MinLength("questions", 0, raw.questions, 1)

(***************************************************************************)
(* ClarificationRequest constructed from a message and a drafted list of   *)
(* ClarificationQuestion values.                                           *)
(***************************************************************************)
MaxQuestions == 2   \* longest questions list that is drafted

\* ClarificationQuestion values: the field asked about, whether an answer
\* is required, how many suggestions are offered
Questions ==
    [field_name : {"programming_language", "grade_level"}, required : BOOLEAN,
     suggestions : 0..1]

NoClarification == [message |-> "", questions |-> <<>>]

NewClarification ==
    [raw |-> NoClarification, state |-> "draft", errors |-> {}, value |-> NoClarification]

\* a candidate clarification is started with its message
DraftClarification ==
    /\ clar' = [NewClarification EXCEPT !.raw.message = "I need a few details"]
    /\ UNCHANGED <<blobs, putCount, staged, caches, call, period, plan, gen, hashing,
                   documents, ds, req, conf, race, _settings>>

\* the candidate gets its next question
AppendQuestion ==
    /\ clar.state = "draft"
    /\ Len(clar.raw.questions) < MaxQuestions
    /\ \E q \in Questions : clar' = [clar EXCEPT !.raw.questions = Append(@, q)]
    /\ UNCHANGED <<blobs, putCount, staged, caches, call, period, plan, gen, hashing,
                   documents, ds, req, conf, race, _settings>>

\* ClarificationRequest(message=..., questions=...) is constructed
ConstructClarification ==
    /\ clar.state = "draft"
    /\ LET errors == ClarificationRequest([questions |-> Len(clar.raw.questions)])
       IN  clar' = [clar EXCEPT
                      !.state = IF errors = {} THEN "accepted" ELSE "rejected",
                      !.errors = errors,
                      !.value = IF errors = {} THEN clar.raw ELSE NoClarification]
    /\ UNCHANGED <<blobs, putCount, staged, caches, call, period, plan, gen, hashing,
                   documents, ds, req, conf, race, _settings>>

\* What the agent may answer: text that is no JSON, or a JSON object that
\* carries the fields of a plan, of a clarification request, or of both.
PlanPayloads(request) ==
    { <<GoodLecture>>, <<GoodLecture, GoodLecture>>,
      <<Lecture(2, 1, <<Seg(0, 20), Seg(25, 20)>>)>> }

EchoRequest(request) ==
    [topic |-> request.topic, lecture_duration |-> request.lecture_duration,
     total_periods |-> request.total_periods]

NoText ==
    [json |-> FALSE, has_plan |-> FALSE, plan_request |-> NoRequest, lectures |-> <<>>,
     has_clarification |-> FALSE, questions |-> 0]

AgentTexts(request) ==
    {NoText}
    \cup { [json |-> TRUE, has_plan |-> hp, plan_request |-> IF hp THEN EchoRequest(request) ELSE NoRequest,
            lectures |-> ls, has_clarification |-> hc, questions |-> q] :
             hp \in BOOLEAN, ls \in PlanPayloads(request) \cup {<<>>}, hc \in BOOLEAN, q \in 0..1 }

WellFormedText(t) ==
    /\ (~t.has_plan => t.lectures = <<>>)
    /\ (t.has_plan => t.lectures # <<>>)
    /\ (~t.has_clarification => t.questions = 0)

\* The result types the returned text validates as ("JSON string of
\* CompleteLessonPlan or ClarificationRequest"); fields a schema does not
\* declare are ignored by its validation.
ResultTags(t) ==
    (IF t.json /\ t.has_plan /\ CompleteLessonPlan(t.plan_request, t.lectures).errors = {}
     THEN {"Resolved"} ELSE {})
    \cup (IF t.json /\ t.has_clarification /\ ClarificationRequest(t) = {}
          THEN {"NeedsClarification"} ELSE {})

NewGen ==
    [request |-> CHOOSE r \in GenRequests : TRUE, prompt |-> <<>>, queries |-> 0,
     state |-> "none", text |-> NoText, attempt |-> 0]

\* One call of generate_lesson_plan_from_request(agent, request), counted
\* in attempt:
\* agent.query(prompt) raises or answers, and response.text is returned.
generate_lesson_plan_from_request ==
    /\ gen.attempt < MaxAttempts
    /\ \E request \in GenRequests, answers \in BOOLEAN :
         \E t \in {x \in AgentTexts(request) : WellFormedText(x)} :
            gen' = [request |-> request,
                    prompt |-> BuildPrompt(request),
                    queries |-> 1,
                    state |-> IF answers THEN "returned" ELSE "raised",
                    text |-> IF answers THEN t ELSE NoText,
                    attempt |-> gen.attempt + 1]
    /\ UNCHANGED <<blobs, putCount, staged, caches, call, period, plan, hashing, documents, ds, req, clar, conf, race, _settings>>

(***************************************************************************)
(* src/tools/datastore_upload.py: upload_to_datastore copies each usable   *)
(* file into the bucket under curriculum/{name} and creates a document     *)
(* for it in the search datastore; a file that is missing or of an         *)
(* unsupported type is skipped.                                            *)
(***************************************************************************)
DATASTORE_EXTENSIONS == {".pdf", ".pptx", ".docx", ".txt", ".md", ".html"}

DATASTORE_ID == "projects/p/locations/global/collections/default_collection/dataStores/curriculum"

DatastoreFiles ==
    LocalFiles \cup
    { [dir |-> "a", stem |-> "setup", suffix |-> ".exe", present |-> TRUE, bytes |-> BytesB] }

CurriculumBlobName(name) == "curriculum/" \o name

\* parent = f"{settings.vertex_ai_search_datastore_id}/branches/default_branch";
\* the created document's resource name, response.name
DocumentName(doc_id) == DATASTORE_ID \o "/branches/default_branch" \o "/documents/" \o doc_id

\* a variant that raises for a file it cannot use
SkipFileRaising(f) ==
    <<Frame("DatastoreUploadError", "Unusable file", PathStr(f))>>

\* `logger.warning(...); continue`: nothing is raised for a skipped file
SkipFile(f) == <<>>

\* `except Exception as e: raise DatastoreUploadError(f"Upload failed: {e}") from e`
DatastoreFailure(chain) == Wrap("DatastoreUploadError", "Upload failed", chain)

\* upload_file_to_gcs raising: DatastoreUploadError(f"Failed to upload {name}: {e}")
FileUploadFailure(chain) == Wrap("DatastoreUploadError", "Failed to upload", chain)

DatastoreFaults == {"none", "exists", "put", "index"}

\* One iteration of `for file_path in files`: what it raised, the remote
\* calls it made, whether it uploaded a blob and created a document, and
\* the entry it put into uploaded_docs.
DatastoreStep(store, docs, f, fault) ==
    LET blob_name == CurriculumBlobName(FileName(f))
        doc_id == f.stem
        existing == BlobExists(store, blob_name)
        none == [raised |-> <<>>, remote |-> <<>>, skipped |-> FALSE, uploaded |-> FALSE,
                 created |-> FALSE, blob_name |-> blob_name, doc_id |-> doc_id,
                 key |-> FileName(f), value |-> ""]
        checked == <<Remote("exists", blob_name, 0, TRUE)>>
        stored == IF ShouldUpload(existing)
                  THEN checked \o <<Remote("put", blob_name, 0, TRUE)>>
                  ELSE checked
    IN  IF ~f.present \/ Lower(f.suffix) \notin DATASTORE_EXTENSIONS
        THEN [none EXCEPT !.skipped = TRUE, !.raised = SkipFile(f)]
        ELSE IF fault = "exists"
        THEN [none EXCEPT
                !.raised = FileUploadFailure(
                              <<Frame("TransportError", "blob.exists failed", blob_name)>>),
                !.remote = <<Remote("exists", blob_name, 0, FALSE)>>]
        ELSE IF ShouldUpload(existing) /\ fault = "put"
        THEN [none EXCEPT
                !.raised = FileUploadFailure(
                              <<Frame("TransportError", "upload failed", blob_name)>>),
                !.remote = checked \o <<Remote("put", blob_name, 0, FALSE)>>]
        ELSE IF fault = "index"
        THEN [none EXCEPT
                !.raised = <<Frame("ServiceError", "create_document failed", doc_id)>>,
                !.uploaded = ShouldUpload(existing),
                !.remote = stored \o <<Remote("create_document", doc_id, 0, FALSE)>>]
        ELSE IF doc_id \in docs
        THEN \* the service answers "already exists": the entry is the bare id
             [none EXCEPT
                !.uploaded = ShouldUpload(existing),
                !.remote = stored \o <<Remote("create_document", doc_id, 0, FALSE)>>,
                !.value = doc_id]
        ELSE [none EXCEPT
                !.uploaded = ShouldUpload(existing),
                !.created = TRUE,
                !.remote = stored \o <<Remote("create_document", doc_id, 0, TRUE)>>,
                !.value = DocumentName(doc_id)]

DatastoreNoResult == [state |-> "none", docs |-> <<>>, error |-> <<>>]

NewDatastoreCall ==
    [pc |-> "idle", files |-> <<>>, uploaded_docs |-> <<>>, remote |-> <<>>,
     result |-> DatastoreNoResult]

\* upload_to_datastore(files, settings) is called; with no datastore id
\* configured, `settings.vertex_ai_search_datastore_id.split("/")` raises
BeginDatastore ==
    /\ ds.pc \in {"idle", "done"}
    /\ \E configured \in BOOLEAN :
         ds' = IF configured
               THEN [NewDatastoreCall EXCEPT !.pc = "loop"]
               ELSE [NewDatastoreCall EXCEPT
                       !.pc = "done",
                       !.result = [DatastoreNoResult EXCEPT
                          !.state = "raised",
                          !.error = DatastoreFailure(
                             <<Frame("AttributeError", "NoneType has no attribute split", "")>>)]]
    /\ UNCHANGED <<blobs, putCount, documents, staged, caches, call, period, plan, gen, hashing, req, clar, conf, race, _settings>>

\* the next file of the list goes through the loop body
DatastoreFile ==
    /\ ds.pc = "loop"
    /\ Len(ds.files) < MaxFiles
    /\ \E f \in DatastoreFiles, fault \in DatastoreFaults :
         LET s == DatastoreStep(blobs, documents, f, fault)
             seen == [ds EXCEPT !.files = Append(ds.files, f), !.remote = ds.remote \o s.remote]
         IN  /\ blobs' = IF s.uploaded THEN Put(blobs, s.blob_name, f.bytes) ELSE blobs
             /\ putCount' = IF s.uploaded THEN Bump(putCount, s.blob_name) ELSE putCount
             /\ documents' = IF s.created THEN documents \cup {s.doc_id} ELSE documents
             /\ ds' = IF s.raised # <<>>
                      THEN [seen EXCEPT
                              !.pc = "done",
                              !.result = [DatastoreNoResult EXCEPT
                                            !.state = "raised",
                                            !.error = DatastoreFailure(s.raised)]]
                      ELSE IF s.skipped THEN seen
                      ELSE [seen EXCEPT !.uploaded_docs = Put(ds.uploaded_docs, s.key, s.value)]
    /\ UNCHANGED <<staged, caches, call, period, plan, gen, hashing, req, clar, conf, race, _settings>>

\* the list is exhausted: `return uploaded_docs`
ReturnDatastore ==
    /\ ds.pc = "loop"
    /\ ds' = [ds EXCEPT !.pc = "done",
                        !.result = [DatastoreNoResult EXCEPT !.state = "returned",
                                                             !.docs = ds.uploaded_docs]]
    /\ UNCHANGED <<blobs, putCount, documents, staged, caches, call, period, plan, gen, hashing, req, clar, conf, race, _settings>>

(***************************************************************************)
(* src/config/settings.py: Settings() reads the project id from the        *)
(* environment (GOOGLE_CLOUD_PROJECT) and the two credential paths from    *)
(* the environment or their defaults; BaseSettings validates defaults      *)
(* too.  The local file system holds some of the credential files.         *)
(***************************************************************************)
DEFAULT_APPLICATION_CREDENTIALS == "vertex-key.json"

DEFAULT_OAUTH_CREDENTIALS == "credentials.json"

MIN_PROJECT_ID_LENGTH == 6

\* GOOGLE_CLOUD_PROJECT: unset, or set to a value
ProjectEnv ==
    {[set |-> FALSE, value |-> ""]}
        \cup {[set |-> TRUE, value |-> v] : v \in {"", "abc", "abcde", "abcdef", "test-project"}}

CredentialFiles ==
    {DEFAULT_APPLICATION_CREDENTIALS, DEFAULT_OAUTH_CREDENTIALS, "keys/sa.json", "keys/oauth.json"}

\* the environments Settings() is constructed in; "" for a path that is not set
Environments ==
    [project : ProjectEnv,
     application_credentials : {"", "keys/sa.json"},
     oauth_credentials : {"", "keys/oauth.json"},
     files : SUBSET CredentialFiles]

\* validate_credential_paths: `if not v.exists(): raise ValueError`
validate_credential_paths(field, v, files) ==
    IF v \in files THEN {} ELSE {Err(field, 0, "Credential file not found", 0, 0)}

\* a variant that only refuses the empty id
validate_project_id_nonempty(v) ==
    IF v = "" THEN {Err("google_cloud_project", 0, "Invalid Google Cloud Project ID", Len(v), 1)}
    ELSE {}

\* validate_project_id: `if not v or len(v) < 6: raise ValueError`
validate_project_id(v) ==
    IF v = "" \/ Len(v) < MIN_PROJECT_ID_LENGTH
    THEN {Err("google_cloud_project", 0, "Invalid Google Cloud Project ID",
              Len(v), MIN_PROJECT_ID_LENGTH)}
    ELSE {}

\* google_cloud_project: required, min_length=1, then the validator
ProjectField(p) ==
    IF ~p.set THEN {Err("google_cloud_project", 0, "missing", 0, 0)}
    ELSE LET short == MinLength("google_cloud_project", 0, Len(p.value), 1)
         IN  IF short # {} THEN short ELSE validate_project_id(p.value)

NoSettings ==
    [google_cloud_project |-> "", google_application_credentials |-> "",
     google_oauth_credentials |-> ""]

\* Settings(): the value, or the errors of every field that failed
Settings(env) ==
    LET application == IF env.application_credentials = ""
                       THEN DEFAULT_APPLICATION_CREDENTIALS ELSE env.application_credentials
        oauth == IF env.oauth_credentials = ""
                 THEN DEFAULT_OAUTH_CREDENTIALS ELSE env.oauth_credentials
        errors == ProjectField(env.project)
                    \cup validate_credential_paths("google_application_credentials",
                                                   application, env.files)
                    \cup validate_credential_paths("google_oauth_credentials", oauth, env.files)
    IN  [errors |-> errors,
         value |-> IF errors = {}
                   THEN [google_cloud_project |-> env.project.value,
                         google_application_credentials |-> application,
                         google_oauth_credentials |-> oauth]
                   ELSE NoSettings]

NoEnvironment ==
    [project |-> [set |-> FALSE, value |-> ""], application_credentials |-> "",
     oauth_credentials |-> "", files |-> {}]

NewSettings == [env |-> NoEnvironment, state |-> "none", errors |-> {}, value |-> NoSettings]

\* Settings() is constructed in some environment
ConstructSettings ==
    /\ \E env \in Environments :
         LET s == Settings(env)
         IN  conf' = [env |-> env,
                      state |-> IF s.errors = {} THEN "accepted" ELSE "rejected",
                      errors |-> s.errors,
                      value |-> s.value]
    /\ UNCHANGED <<blobs, putCount, staged, caches, call, period, plan, gen, hashing,
                   documents, ds, req, clar, race, _settings>>

\* `_settings: Settings | None = None`, with what the last call of
\* get_settings did: instance numbers the constructed Settings objects
NewSingleton ==
    [set |-> FALSE, instance |-> 0, value |-> NoSettings, constructed |-> 0, calls |-> 0,
     last |-> [state |-> "none", instance |-> 0, value |-> NoSettings, constructs |-> FALSE,
               errors |-> {}]]

\* a variant that constructs a Settings object whenever it is called
SingletonNeverSet(singleton) == FALSE

\* `if _settings is None`
SingletonSet(singleton) == singleton.set

\* get_settings() is called in some environment: Settings() is constructed
\* only while the singleton is None, and the assignment to _settings does
\* not happen when the constructor raises
get_settings ==
    /\ _settings.calls < MaxAttempts
    /\ \E env \in Environments :
         LET s == Settings(env)
             counted == [_settings EXCEPT !.calls = @ + 1]
         IN  _settings' =
               IF SingletonSet(_settings)
               THEN [counted EXCEPT
                       !.last = [state |-> "returned", instance |-> _settings.instance,
                                 value |-> _settings.value, constructs |-> FALSE,
                                 errors |-> {}]]
               ELSE IF s.errors # {}
               THEN [counted EXCEPT
                       !.constructed = @ + 1,
                       !.last = [state |-> "raised", instance |-> 0, value |-> NoSettings,
                                 constructs |-> TRUE, errors |-> s.errors]]
               ELSE [counted EXCEPT
                       !.set = TRUE,
                       !.instance = _settings.constructed + 1,
                       !.value = s.value,
                       !.constructed = @ + 1,
                       !.last = [state |-> "returned", instance |-> _settings.constructed + 1,
                                 value |-> s.value, constructs |-> TRUE, errors |-> {}]]
    /\ UNCHANGED <<blobs, putCount, staged, caches, call, period, plan, gen, hashing,
                   documents, ds, req, clar, conf, race>>

(***************************************************************************)
(* Specifications.                                                         *)
(***************************************************************************)
Init ==
    /\ blobs = <<>>
    /\ putCount = <<>>
    /\ staged = {}
    /\ caches = <<>>
    /\ call = IdleCall
    /\ period = NewPeriod
    /\ plan = NewPlan
    /\ gen = NewGen
    /\ hashing = NewHashing
    /\ documents = {}
    /\ ds = NewDatastoreCall
    /\ req = NewRequest
    /\ clar = NewClarification
    /\ conf = NewSettings
    /\ race = NewRace
    /\ _settings = NewSingleton

Next ==
    \/ BeginStage
    \/ BeginCreate
    \/ StageFile
    \/ ReturnStage
    \/ FinishCreate
    \/ get_cache_info
    \/ delete_cache
    \/ Expire

Spec == Init /\ [][Next]_vars

NextPeriod ==
    \/ DraftPeriod
    \/ AppendSegment
    \/ ConstructPeriod

SpecPeriod == Init /\ [][NextPeriod]_vars

NextPlan ==
    \/ DraftPlan
    \/ AppendLecture
    \/ ConstructPlan

SpecPlan == Init /\ [][NextPlan]_vars

NextGen == generate_lesson_plan_from_request

SpecGen == Init /\ [][NextGen]_vars

NextRetry ==
    \/ DraftBatch
    \/ BeginAttempt
    \/ AttemptFile
    \/ AttemptReturn

SpecRetry == Init /\ [][NextRetry]_vars

NextRace == \E p \in Callers : RaceBegin(p) \/ RaceExists(p) \/ RaceUpload(p)

SpecRace == Init /\ [][NextRace]_vars

NextHash == HashFile

SpecHash == Init /\ [][NextHash]_vars

NextRequest == ConstructRequest

SpecRequest == Init /\ [][NextRequest]_vars

NextAssign ==
    \/ ConstructRequest
    \/ AssignField

SpecAssign == Init /\ [][NextAssign]_vars

NextClarification ==
    \/ DraftClarification
    \/ AppendQuestion
    \/ ConstructClarification

SpecClarification == Init /\ [][NextClarification]_vars

NextSettings == ConstructSettings

SpecSettings == Init /\ [][NextSettings]_vars

NextAccessor == get_settings

SpecAccessor == Init /\ [][NextAccessor]_vars

NextDatastore ==
    \/ BeginDatastore
    \/ DatastoreFile
    \/ ReturnDatastore

\* a run uses one of the two sinks of staged files: upload_files_to_gcs
\* (no datastore call was made) or upload_to_datastore (no stage call was made)
NextSinks ==
    \/ ds = NewDatastoreCall /\ (BeginStage \/ StageFile \/ ReturnStage)
    \/ call = IdleCall /\ NextDatastore

SpecSinks == Init /\ [][NextSinks]_vars

(***************************************************************************)
(* Properties.                                                             *)
(***************************************************************************)
Returned == call.pc = "done" /\ call.result.state = "returned"

Failed == call.pc = "done" /\ call.result.state = "raised"

RECURSIVE SumOver(_, _)
SumOver(counts, keys) ==
    IF keys = {} THEN 0
    ELSE LET k == CHOOSE x \in keys : TRUE
         IN  counts[k] + SumOver(counts, keys \ {k})

\* completed puts of blobs that hold the given bytes
PutsForBytes(bytes) == SumOver(putCount, {k \in DOMAIN putCount : blobs[k] = bytes})

\* C1 as stated: whatever the filename, content staged twice is put at most
\* once and gets the same storage URI in both stagings.
C1_DedupAnyFilename ==
    \A s1 \in staged, s2 \in staged :
        s1.bytes = s2.bytes => s1.uri = s2.uri /\ PutsForBytes(s1.bytes) <= 1

\* C1 amended: content staged twice under the same filename (in one batch or
\* in separate calls, from the same path or another) is put at most once
\* under its blob name and gets the same storage URI in every staging.
C1_DedupSameFilename ==
    /\ \A k \in DOMAIN putCount : putCount[k] <= 1
    /\ \A s1 \in staged, s2 \in staged :
         s1.bytes = s2.bytes /\ s1.name = s2.name => s1.uri = s2.uri
    /\ Returned /\ call.op = "stage" =>
         \A i \in 1..Len(call.files), j \in 1..Len(call.files) :
            call.files[i].bytes = call.files[j].bytes
                /\ FileName(call.files[i]) = FileName(call.files[j])
              => call.result.uris[i] = call.result.uris[j]

\* one batch staged the same content and filename from two different paths:
\* one put, one uri
C1_Witness ==
    /\ Returned
    /\ call.op = "stage"
    /\ Len(call.files) = 2
    /\ call.files[1].dir # call.files[2].dir
    /\ call.files[1].bytes = call.files[2].bytes
    /\ FileName(call.files[1]) = FileName(call.files[2])
    /\ call.result.uris[1] = call.result.uris[2]
    /\ \E k \in DOMAIN putCount : putCount[k] = 1 /\ GcsUri(BUCKET_NAME, k) = call.result.uris[1]

WellFormedSegments(segs) ==
    \A i \in 1..Len(segs) : segs[i].start_minute >= 0 /\ segs[i].duration >= 1

\* the segments cover every minute from the earliest start to the latest end
\* exactly once: no gap, no overlap
Tiles(segs) ==
    /\ segs # <<>>
    /\ LET lo == CHOOSE m \in {segs[i].start_minute : i \in 1..Len(segs)} :
                    \A i \in 1..Len(segs) : m <= segs[i].start_minute
           hi == CHOOSE m \in {segs[i].start_minute + segs[i].duration : i \in 1..Len(segs)} :
                    \A i \in 1..Len(segs) : m >= segs[i].start_minute + segs[i].duration
       IN  \A m \in lo..(hi - 1) :
              Cardinality({i \in 1..Len(segs) :
                             segs[i].start_minute <= m
                                /\ m < segs[i].start_minute + segs[i].duration}) = 1

TimelineErrors == {e \in period.errors : e.field = "detailed_timeline"}

PeriodConstructed == period.state \in {"accepted", "rejected"}

\* C2: the timeline of a LecturePeriod is accepted iff it is non-empty and
\* its segments, sorted by start_minute, follow each other with no gap and
\* no overlap; otherwise the period is rejected with the timeline error and
\* no period value exists.
C2_TimelineContinuity ==
    PeriodConstructed /\ WellFormedSegments(period.raw.detailed_timeline) =>
        LET tl == period.raw.detailed_timeline
        IN  /\ (TimelineErrors = {}) <=> Tiles(tl)
            /\ tl = <<>> =>
                 \E e \in period.errors : e.type = "Timeline cannot be empty"
            /\ tl # <<>> /\ ~Tiles(tl) =>
                 \E e \in period.errors : e.type = "Timeline gap detected" /\ e.a # e.b
            /\ ~Tiles(tl) => period.state = "rejected" /\ period.value = NoPeriod
            /\ Tiles(tl) /\ period.raw.learning_objectives >= 2
                    /\ period.raw.detailed_activities >= 1
                 => period.state = "accepted"

\* three segments given out of order that are contiguous once sorted
C2_Witness ==
    /\ period.state = "accepted"
    /\ Len(period.raw.detailed_timeline) = 3
    /\ period.raw.detailed_timeline[1].start_minute > period.raw.detailed_timeline[3].start_minute
    /\ period.value.detailed_timeline # period.raw.detailed_timeline

ValidLecture(l) ==
    /\ l.learning_objectives >= 2
    /\ l.detailed_activities >= 1
    /\ WellFormedSegments(l.detailed_timeline)
    /\ Tiles(l.detailed_timeline)

InBounds(r) ==
    /\ Len(r.topic) >= 3
    /\ r.lecture_duration \in 30..180
    /\ r.total_periods \in 1..30

PlanConstructed == plan.state \in {"accepted", "rejected"}

\* C3: with a request within its bounds and k valid lectures, k in 1..30,
\* CompleteLessonPlan is constructed iff k = request.total_periods; a
\* mismatch is reported as the lecture-count error and no plan exists.
C3_LectureCountMatch ==
    /\ PlanConstructed
    /\ InBounds(plan.request)
    /\ Len(plan.lectures) \in 1..30
    /\ \A i \in 1..Len(plan.lectures) : ValidLecture(plan.lectures[i])
    => /\ (plan.state = "accepted") <=> (Len(plan.lectures) = plan.request.total_periods)
       /\ Len(plan.lectures) # plan.request.total_periods =>
            /\ plan.value = NoPlan
            /\ Err("lectures", 0, "Expected lectures, got",
                   plan.request.total_periods, Len(plan.lectures)) \in plan.errors

\* thirty valid lectures for a request of thirty periods
C3_Witness ==
    /\ plan.state = "accepted"
    /\ Len(plan.lectures) = 30
    /\ plan.request.total_periods = 30

StructurallyValid(v) ==
    /\ Len(v.lectures) = v.request.total_periods
    /\ InBounds(v.request)
    /\ \A i \in 1..Len(v.lectures) :
         /\ Tiles(v.lectures[i].detailed_timeline)
         /\ v.lectures[i].learning_objectives >= 2
         /\ v.lectures[i].detailed_activities >= 1

\* C4: the CompleteLessonPlan an attempt leaves behind is structurally valid
\* (lecture count, request bounds, per lecture a contiguous non-empty
\* timeline, two objectives, one activity); an attempt that fails a check
\* leaves errors and no plan value.
C4_PlanValid ==
    /\ plan.state = "accepted" =>
         plan.value # NoPlan /\ plan.errors = {} /\ StructurallyValid(plan.value)
    /\ plan.state = "rejected" => plan.value = NoPlan /\ plan.errors # {}
    /\ plan.state = "draft" => plan.value = NoPlan

\* a plan of two lectures, one of them given with its segments out of order
C4_Witness ==
    /\ plan.state = "accepted"
    /\ Len(plan.value.lectures) = 2
    /\ \E i \in 1..2 : plan.lectures[i].detailed_timeline # plan.value.lectures[i].detailed_timeline

\* C5: what a generation attempt returns is exactly one of a resolved
\* CompleteLessonPlan and a ClarificationRequest.
C5_ExactlyOneTag ==
    gen.state = "returned" => Cardinality(ResultTags(gen.text)) = 1

\* C6: deleting a cache that was already deleted or has expired succeeds.
C6_DeleteIdempotent ==
    call.op = "delete" /\ call.pc = "done" /\ call.fault = "none"
        /\ call.pre \in {"deleted", "expired"}
      => call.result.state = "returned"

InfoNotFound(name) ==
    Raised(<<Frame("ContextCacheError", "Failed to retrieve cache info",
                   "404 cached content not found"),
             Frame("NotFound", "404 cached content not found", ToString(name))>>)

\* C7: get_cache_info on a cache that expired, was deleted or never existed
\* fails with one and the same not-found error, and on a live cache (the
\* service answering) it returns the metadata of that cache.
C7_InfoNotFound ==
    call.op = "info" /\ call.pc = "done" =>
        /\ call.pre # "live" => call.result.state = "raised"
        /\ call.pre \in {"expired", "deleted", "absent"} /\ call.fault = "none" =>
             call.result = InfoNotFound(call.target)
        /\ call.pre = "live" /\ call.fault = "none" =>
             /\ call.result.state = "returned"
             /\ call.result.info.name = call.target
             /\ call.result.info.model = SPECIALIST_MODEL
             /\ call.result.info.display_name = caches[call.target].display_name
             /\ call.result.info.expire_time = caches[call.target].ttl

\* a lookup of a cache that has expired
C7_Witness ==
    /\ call.op = "info"
    /\ call.pc = "done"
    /\ call.pre = "expired"
    /\ call.fault = "none"
    /\ call.result.state = "raised"

\* C8: create with a time-to-live that is not positive fails before any
\* remote call is made.
C8_TtlRejectedBeforeRemote ==
    call.op = "create" /\ call.ttl <= 0 =>
        /\ call.remote = <<>>
        /\ call.pc = "done" => call.result.state = "raised"

\* C9 as stated: create with an empty files list is rejected with
\* EmptyCacheError and creates no cache.
C9_EmptyCacheError ==
    call.op = "create" /\ call.pc = "done" /\ call.files = <<>> =>
        /\ call.result.state = "raised"
        /\ \E i \in 1..Len(call.result.error) : call.result.error[i].kind = "EmptyCacheError"
        /\ Len(caches) = call.entryCaches

\* C9 amended: create with an empty files list is rejected with a
\* ContextCacheError that wraps the IndexError of files[0]; the service's
\* create is not invoked and no cache is created.
C9_EmptyFilesRejected ==
    call.op = "create" /\ call.pc = "done" /\ call.files = <<>> =>
        /\ call.result.state = "raised"
        /\ call.result.cache = 0
        /\ call.result.error[1].kind = "ContextCacheError"
        /\ call.result.error[2].kind = "IndexError"
        /\ ~call.args.called
        /\ \A i \in 1..Len(call.remote) : call.remote[i].op # "cache.create"
        /\ Len(caches) = call.entryCaches

\* create was called with no file and a positive time-to-live, and failed
C9_Witness ==
    /\ call.op = "create"
    /\ call.pc = "done"
    /\ call.files = <<>>
    /\ call.ttl > 0
    /\ call.result.state = "raised"

\* C10: a stage call that returns gives one uri per input file, the i-th
\* uri naming the blob that holds the i-th file, uploaded or found present.
C10_PositionalResults ==
    Returned /\ call.op = "stage" =>
        /\ Len(call.result.uris) = Len(call.files)
        /\ \A i \in 1..Len(call.files) :
             LET blob_name == BlobName(compute_file_hash(call.files[i]), FileName(call.files[i]))
             IN  /\ call.result.uris[i] = GcsUri(BUCKET_NAME, blob_name)
                 /\ blob_name \in DOMAIN blobs
                 /\ blobs[blob_name] = call.files[i].bytes

\* a batch of two different files, the first found present, the second uploaded
C10_Witness ==
    /\ Returned
    /\ call.op = "stage"
    /\ Len(call.files) = 2
    /\ call.result.uris[1] # call.result.uris[2]
    /\ Len(call.remote) = 3
    /\ call.remote[3].op = "put"

(***************************************************************************)
(* Failure reporting of upload_files_to_gcs.                               *)
(***************************************************************************)
StageFailed == Failed /\ call.op = "stage"

\* the file whose iteration raised: the last one the loop reached
FailingFile == call.files[Len(call.files)]

\* the local or remote condition that made the iteration raise
FailureCause ==
    IF ~FailingFile.present THEN "missing"
    ELSE IF Lower(FailingFile.suffix) \notin SUPPORTED_EXTENSIONS THEN "unsupported"
    ELSE "transport"

\* C11 as stated: the three causes reach the caller as three error kinds
\* (a file-not-found kind, an unsupported-type kind, a staging-failed kind),
\* the batch fails and no list is returned.
C11_ThreeErrorKinds ==
    StageFailed =>
        /\ call.result.uris = <<>>
        /\ call.result.error[1].kind =
             (CASE FailureCause = "missing" -> "FileNotFoundError"
                [] FailureCause = "unsupported" -> "UnsupportedFileType"
                [] OTHER -> "StagingFailed")

\* C11 amended: the three causes reach the caller as one error kind,
\* ContextCacheError "GCS upload failed", which wraps the cause: a
\* ContextCacheError "File not found" naming the path, a ContextCacheError
\* "Unsupported file type" naming the suffix, or the transport error; the
\* batch fails and no list is returned.
C11_OneKindThreeCauses ==
    StageFailed =>
        /\ call.result.uris = <<>>
        /\ Len(call.result.error) = 2
        /\ call.result.error[1].kind = "ContextCacheError"
        /\ call.result.error[1].msg = "GCS upload failed"
        /\ call.result.error[2] =
             (CASE FailureCause = "missing" ->
                     Frame("ContextCacheError", "File not found", PathStr(FailingFile))
                [] FailureCause = "unsupported" ->
                     Frame("ContextCacheError", "Unsupported file type", FailingFile.suffix)
                [] OTHER ->
                     Frame("TransportError",
                           IF call.fault = "exists" THEN "blob.exists failed" ELSE "upload failed",
                           BlobName(compute_file_hash(FailingFile), FileName(FailingFile))))

\* a batch whose first file was uploaded and whose second has an
\* unsupported suffix: the call raised and returned no list
C11_Witness ==
    /\ StageFailed
    /\ Len(call.files) = 2
    /\ FailureCause = "unsupported"
    /\ Len(call.remote) = 2
    /\ call.remote[2].op = "put"
    /\ call.remote[2].ok

(***************************************************************************)
(* The storage key of a staged file.                                       *)
(***************************************************************************)
\* {namespace}/{fingerprint}/{original_filename} for content and filename
KeyOf(bytes, name) ==
    "lesson-materials" \o "/" \o compute_file_hash([bytes |-> bytes]) \o "/" \o name

\* C13: every key the store is asked about or holds, and every URI a stage
\* call returned, is {namespace}/{fingerprint}/{original_filename} of the
\* file's content and filename, in whichever call and from whichever path
\* the file was staged.
C13_KeyFormat ==
    /\ \A s \in staged : s.uri = "gs://" \o BUCKET_NAME \o "/" \o KeyOf(s.bytes, s.name)
    /\ \A k \in DOMAIN blobs :
         \E f \in LocalFiles : f.present /\ blobs[k] = f.bytes /\ k = KeyOf(f.bytes, FileName(f))
    /\ call.op \in {"stage", "create"} =>
         \A i \in 1..Len(call.remote) :
            call.remote[i].op \in {"exists", "put"} =>
               \E j \in 1..Len(call.files) :
                  call.remote[i].blob = KeyOf(call.files[j].bytes, FileName(call.files[j]))

\* content that an earlier call staged from one path is staged again from
\* another path: the key is found present and the same URI is returned
C13_Witness ==
    /\ Returned
    /\ call.op = "stage"
    /\ Len(call.files) = 1
    /\ call.files[1].dir = "b"
    /\ Len(call.remote) = 1
    /\ call.remote[1].op = "exists"
    /\ \E s \in staged : s.uri = call.result.uris[1]
    /\ putCount[KeyOf(BytesA, "slides.pdf")] = 1

(***************************************************************************)
(* Retrying a failed stage call.                                           *)
(***************************************************************************)
\* C12: a retry of the same batch performs no put for a blob that an
\* earlier attempt uploaded, and when an attempt returns, the store holds
\* each file of the batch under exactly one key, put exactly once, and the
\* call returns the URIs that a failure-free run of the batch returns.
C12_RetrySafety ==
    /\ \A i \in 1..Len(call.remote) :
         call.remote[i].op = "put" => call.remote[i].blob \notin call.prior
    /\ \A k \in DOMAIN putCount : putCount[k] <= 1
    /\ Returned =>
         LET clean == FailureFree(<<>>, call.batch, <<>>)
         IN  /\ call.result.uris = clean.uris
             /\ blobs = clean.store
             /\ \A k \in DOMAIN blobs : putCount[k] = 1
             /\ UploadedBy(call.remote) \cup call.prior = DOMAIN blobs

\* the third attempt at a batch of two different files returns: the first
\* attempt uploaded the first file and failed at the second, the second
\* attempt failed again, the third skips the first file and puts the second
C12_Witness ==
    /\ Returned
    /\ call.attempt = 3
    /\ Len(call.batch) = 2
    /\ Cardinality(call.prior) = 1
    /\ Len(call.remote) = 3
    /\ call.remote[1].blob \in call.prior
    /\ call.remote[3].op = "put"
    /\ call.remote[3].blob \notin call.prior

C14_WitnessDifferent ==
    /\ hashing.prev.hashed
    /\ hashing.cur.hashed
    /\ hashing.prev.path = hashing.cur.path
    /\ hashing.prev.bytes = BytesA
    /\ hashing.cur.bytes = BytesB
    /\ hashing.prev.digest # hashing.cur.digest

(***************************************************************************)
(* The extension allow-list of the two sinks.                              *)
(***************************************************************************)
AllowList == {".pdf", ".pptx", ".docx", ".txt", ".md"}

\* the files of the list that pass the local checks of a sink
Usable(files, extensions) ==
    { j \in 1..Len(files) : files[j].present /\ Lower(files[j].suffix) \in extensions }

\* C15: a sink makes blob-store calls (exists, put) only for files whose
\* extension is in its allow-list, the staging list for upload_files_to_gcs
\* and that list plus .html for upload_to_datastore; a file with another
\* extension gets no URI and no document entry, and the staging call that
\* meets one raises.
C15_AllowList ==
    /\ \A i \in 1..Len(call.remote) :
         call.remote[i].op \in {"exists", "put"} =>
            \E j \in Usable(call.files, AllowList) :
               call.remote[i].blob = KeyOf(call.files[j].bytes, FileName(call.files[j]))
    /\ \A i \in 1..Len(call.gcs_uris) : i \in Usable(call.files, AllowList)
    /\ \A j \in 1..Len(call.files) : j \notin Usable(call.files, AllowList) => Failed
    /\ \A i \in 1..Len(ds.remote) :
         ds.remote[i].op \in {"exists", "put"} =>
            \E j \in Usable(ds.files, AllowList \cup {".html"}) :
               ds.remote[i].blob = "curriculum/" \o FileName(ds.files[j])
    /\ \A n \in DOMAIN ds.uploaded_docs :
         \E j \in Usable(ds.files, AllowList \cup {".html"}) : n = FileName(ds.files[j])
    /\ \A j \in Usable(ds.files, AllowList \cup {".html"}) :
         ds.result.state = "returned" => FileName(ds.files[j]) \in DOMAIN ds.result.docs

\* upload_to_datastore was given an .html file and an .exe file: the first
\* was uploaded and indexed, the second caused no remote call
C15_Witness ==
    /\ ds.pc = "done"
    /\ ds.result.state = "returned"
    /\ Len(ds.files) = 2
    /\ ds.files[1].suffix = ".html"
    /\ ds.files[2].suffix = ".exe"
    /\ DOMAIN ds.result.docs = {"page.html"}
    /\ Len(ds.remote) = 3
    /\ ds.remote[2] = Remote("put", "curriculum/page.html", 0, TRUE)

(***************************************************************************)
(* Request invariants.                                                     *)
(***************************************************************************)
\* the fields of the candidate that break their declared bound
ViolatedFields(raw) ==
    (IF Len(raw.topic) >= 3 THEN {} ELSE {"request.topic"})
        \cup (IF raw.lecture_duration \in 30..180 THEN {} ELSE {"request.lecture_duration"})
        \cup (IF raw.total_periods \in 1..30 THEN {} ELSE {"request.total_periods"})

\* C16: constructing a LessonPlanRequest succeeds exactly when
\* lecture_duration is in [30, 180], total_periods is in [1, 30] and the
\* topic has at least 3 characters; otherwise the error names every
\* violated field and no request value is created.
C16_RequestInvariants ==
    req.state # "none" =>
        /\ req.state = "accepted" <=> ViolatedFields(req.raw) = {}
        /\ req.state = "accepted" => req.value = req.raw /\ req.errors = {}
        /\ req.state = "rejected" =>
             /\ req.value = NoRequest
             /\ { e.field : e \in req.errors } = ViolatedFields(req.raw)

\* a candidate with a two-character topic and 181 minutes is rejected, the
\* error naming both fields
C16_Witness ==
    /\ req.state = "rejected"
    /\ req.raw = [topic |-> "ML", lecture_duration |-> 181, total_periods |-> 30]
    /\ { e.field : e \in req.errors } = {"request.topic", "request.lecture_duration"}
    /\ req.value = NoRequest

\* a candidate on the lower bound of every field is accepted
C16_WitnessAccepted ==
    /\ req.state = "accepted"
    /\ req.raw = [topic |-> "Bio", lecture_duration |-> 30, total_periods |-> 1]

(***************************************************************************)
(* Coverage of the lecture by the timeline.                                *)
(***************************************************************************)
\* C17: in every accepted plan, the timeline of every lecture starts at
\* minute 0 and ends at the request's lecture_duration.
C17_TimelineCoversLecture ==
    plan.state = "accepted" =>
        \A i \in 1..Len(plan.value.lectures) :
            LET t == plan.value.lectures[i].detailed_timeline
            IN  /\ t[1].start_minute = 0
                /\ end_minute(t[Len(t)]) = plan.value.request.lecture_duration

(***************************************************************************)
(* Per-period minimums.                                                    *)
(***************************************************************************)
\* the errors of the constructed period that name the given field
ErrorsNaming(field) == { e \in period.errors : e.field = field }

\* C18: a LecturePeriod with fewer than 2 learning objectives, or with no
\* activity, is rejected with an error naming that field and no period
\* value exists; with at least 2 objectives and at least 1 activity no
\* error names either field.
C18_PeriodMinimums ==
    PeriodConstructed =>
        /\ period.raw.learning_objectives < 2 <=>
             ErrorsNaming("learning_objectives") =
                {Err("learning_objectives", 0, "too_short", period.raw.learning_objectives, 2)}
        /\ period.raw.learning_objectives >= 2 <=> ErrorsNaming("learning_objectives") = {}
        /\ period.raw.detailed_activities < 1 <=>
             ErrorsNaming("detailed_activities") =
                {Err("detailed_activities", 0, "too_short", period.raw.detailed_activities, 1)}
        /\ period.raw.detailed_activities >= 1 <=> ErrorsNaming("detailed_activities") = {}
        /\ period.raw.learning_objectives < 2 \/ period.raw.detailed_activities < 1 =>
             period.state = "rejected" /\ period.value = NoPeriod

\* a period with one objective, one activity and a contiguous timeline is
\* rejected for its objectives alone
C18_Witness ==
    /\ period.state = "rejected"
    /\ period.raw.learning_objectives = 1
    /\ period.raw.detailed_activities = 1
    /\ Len(period.raw.detailed_timeline) = 2
    /\ period.errors = {Err("learning_objectives", 0, "too_short", 1, 2)}
    /\ period.value = NoPeriod

(***************************************************************************)
(* Clarification requests.                                                 *)
(***************************************************************************)
\* C19: a ClarificationRequest value carries at least one question;
\* constructing one with an empty questions list fails with an error on
\* `questions` and produces no value.
C19_AtLeastOneQuestion ==
    /\ clar.state = "accepted" =>
         Len(clar.value.questions) >= 1 /\ clar.value = clar.raw
    /\ clar.state = "rejected" =>
         /\ clar.raw.questions = <<>>
         /\ clar.value = NoClarification
         /\ clar.errors = {Err("questions", 0, "too_short", 0, 1)}
    /\ clar.state # "draft" /\ clar.raw.questions = <<>> => clar.state = "rejected"
    /\ clar.state = "draft" => clar.value = NoClarification

\* a candidate with a message and no question was constructed and rejected
C19_Witness ==
    /\ clar.state = "rejected"
    /\ clar.raw.message # ""
    /\ clar.raw.questions = <<>>
    /\ clar.value = NoClarification

(***************************************************************************)
(* Settings validation.                                                    *)
(***************************************************************************)
\* the credential path in effect: the configured one, or the default
PathInEffect(configured, default) == IF configured = "" THEN default ELSE configured

\* the fields some error of the last construction names
ConfErrorFields == { e.field : e \in conf.errors }

\* C20: Settings construction fails, with an error naming the field and no
\* Settings value, when the project id is empty or shorter than 6
\* characters, or when a credential path in effect names no existing file;
\* a constructed Settings has a project id of 6 or more characters and
\* credential files that exist.
C20_SettingsValidated ==
    conf.state # "none" =>
        LET application == PathInEffect(conf.env.application_credentials, "vertex-key.json")
            oauth == PathInEffect(conf.env.oauth_credentials, "credentials.json")
        IN  /\ Len(conf.env.project.value) < 6 =>
                 conf.state = "rejected" /\ "google_cloud_project" \in ConfErrorFields
            /\ application \notin conf.env.files =>
                 conf.state = "rejected" /\ "google_application_credentials" \in ConfErrorFields
            /\ oauth \notin conf.env.files =>
                 conf.state = "rejected" /\ "google_oauth_credentials" \in ConfErrorFields
            /\ conf.state = "rejected" => conf.value = NoSettings /\ conf.errors # {}
            /\ conf.state = "accepted" =>
                 /\ Len(conf.value.google_cloud_project) >= 6
                 /\ conf.value.google_application_credentials \in conf.env.files
                 /\ conf.value.google_oauth_credentials \in conf.env.files

\* a five-character project id with both credential files present: rejected
\* for the project id alone
C20_Witness ==
    /\ conf.state = "rejected"
    /\ conf.env.project = [set |-> TRUE, value |-> "abcde"]
    /\ conf.env.files = CredentialFiles
    /\ ConfErrorFields = {"google_cloud_project"}
    /\ conf.value = NoSettings

\* a valid project id with a configured service-account path whose file does
\* not exist: rejected for that path alone
C20_WitnessCredential ==
    /\ conf.state = "rejected"
    /\ conf.env.project.value = "test-project"
    /\ conf.env.application_credentials = "keys/sa.json"
    /\ conf.env.files = {"credentials.json"}
    /\ ConfErrorFields = {"google_application_credentials"}

(***************************************************************************)
(* Order independence of the timeline check.                               *)
(***************************************************************************)
\* every reordering of a list
Reorderings(segs) ==
    { [i \in 1..Len(segs) |-> segs[p[i]]] :
        p \in { f \in [1..Len(segs) -> 1..Len(segs)] :
                  \A i, j \in 1..Len(segs) : f[i] = f[j] => i = j } }

\* C21: the verdict on a timeline is the verdict on every permutation of it,
\* and the timeline stored in an accepted LecturePeriod is the input sorted
\* by start_minute, the same for every permutation of the input.
C21_OrderIndependent ==
    PeriodConstructed /\ WellFormedSegments(period.raw.detailed_timeline) =>
        LET tl == period.raw.detailed_timeline
        IN  /\ \A q \in Reorderings(tl) :
                 (validate_timeline_continuity(q).raised = {}) <=> (TimelineErrors = {})
            /\ period.state = "accepted" =>
                 LET stored == period.value.detailed_timeline
                 IN  /\ stored \in Reorderings(tl)
                     /\ \A i \in 1..(Len(stored) - 1) :
                          stored[i].start_minute <= stored[i + 1].start_minute
                     /\ \A q \in Reorderings(tl) :
                          validate_timeline_continuity(q).value = stored

\* segments given as third, first, second are accepted and stored as
\* first, second, third
C21_Witness ==
    /\ period.state = "accepted"
    /\ period.raw.detailed_timeline = <<Seg(2, 1), Seg(0, 1), Seg(1, 1)>>
    /\ period.value.detailed_timeline = <<Seg(0, 1), Seg(1, 1), Seg(2, 1)>>

(***************************************************************************)
(* Error accumulation.                                                     *)
(***************************************************************************)
PeriodFields == {"learning_objectives", "detailed_timeline", "detailed_activities"}

\* the violations the failure reports for lecture i
ErrorsOfLecture(i) == { e \in plan.errors : e.index = i /\ e.field \in PeriodFields }

\* C22 as stated: the failure holds exactly one violation for every invalid
\* lecture period (the first one met in that period) and none for a valid one.
C22_OnePerInvalidPeriod ==
    PlanConstructed =>
        \A i \in 1..Len(plan.lectures) :
            Cardinality(ErrorsOfLecture(i)) = IF ValidLecture(plan.lectures[i]) THEN 0 ELSE 1

\* C22 amended: the failure holds a violation for every invalid lecture
\* period and none for a valid one; within a period every violated field is
\* reported (objectives, timeline, activities), and the timeline check
\* alone stops at its first violation.
C22_AccumulatesAcrossPeriods ==
    PlanConstructed =>
        \A l \in { plan.lectures[i] : i \in 1..Len(plan.lectures) } :
            LET tiled == WellFormedSegments(l.detailed_timeline) /\ Tiles(l.detailed_timeline)
                valid == l.learning_objectives >= 2 /\ l.detailed_activities >= 1 /\ tiled
            IN  \A i \in { j \in 1..Len(plan.lectures) : plan.lectures[j] = l } :
                    LET reported == ErrorsOfLecture(i)
                        named == { e.field : e \in reported }
                    IN  /\ valid <=> reported = {}
                        /\ "learning_objectives" \in named <=> l.learning_objectives < 2
                        /\ "detailed_activities" \in named <=> l.detailed_activities < 1
                        /\ "detailed_timeline" \in named <=> ~tiled
                        /\ Cardinality({ e \in reported : e.field = "detailed_timeline" }) <= 1
                        /\ ~valid => plan.state = "rejected" /\ plan.value = NoPlan

\* a candidate of two invalid lectures, the first with no activity and no
\* segment, the second with a gap: three violations, for both lectures
C22_Witness ==
    /\ plan.state = "rejected"
    /\ Len(plan.lectures) = 2
    /\ plan.lectures[1] = Lecture(2, 0, <<>>)
    /\ plan.lectures[2] = Lecture(2, 1, <<Seg(0, 20), Seg(25, 20)>>)
    /\ { e.field : e \in ErrorsOfLecture(1) } = {"detailed_timeline", "detailed_activities"}
    /\ { e.field : e \in ErrorsOfLecture(2) } = {"detailed_timeline"}

(***************************************************************************)
(* create_context_cache: staging comes first.                              *)
(***************************************************************************)
\* the create call stopped in its staging loop
StagingFailed == call.op = "create" /\ call.pc = "done" /\ Len(call.gcs_uris) < Len(call.files)

\* C23: CachedContent.create is invoked at most once, as the last remote
\* call, after every file of the batch was staged, with one content
\* reference per file in input order; when staging fails it is not invoked,
\* no cache is made and the call raises.
C23_StageBeforeCreate ==
    call.op = "create" =>
        /\ \A i \in 1..Len(call.remote) :
             call.remote[i].op = "cache.create" =>
                /\ i = Len(call.remote)
                /\ call.args.called
                /\ Len(call.gcs_uris) = Len(call.files)
                /\ Len(call.args.contents) = Len(call.files)
                /\ \A j \in 1..Len(call.files) :
                     /\ call.args.contents[j].file_uri =
                          "gs://" \o BUCKET_NAME \o "/"
                             \o KeyOf(call.files[j].bytes, FileName(call.files[j]))
                     /\ KeyOf(call.files[j].bytes, FileName(call.files[j])) \in DOMAIN blobs
        /\ call.args.called => call.remote[Len(call.remote)].op = "cache.create"
        /\ StagingFailed =>
             /\ ~call.args.called
             /\ \A i \in 1..Len(call.remote) : call.remote[i].op # "cache.create"
             /\ call.result.state = "raised"
             /\ call.result.cache = 0
             /\ Len(caches) = call.entryCaches

\* a cache was created from two different files: two puts, then the create
\* with the two references in input order
C23_Witness ==
    /\ Returned
    /\ call.op = "create"
    /\ Len(call.files) = 2
    /\ call.files[1].stem = "slides"
    /\ call.files[2].stem = "notes"
    /\ Len(call.remote) = 5
    /\ call.remote[5].op = "cache.create"
    /\ call.args.contents[1].file_uri # call.args.contents[2].file_uri
    /\ call.result.cache = 1

(***************************************************************************)
(* Concurrent staging.                                                     *)
(***************************************************************************)
\* C24: whatever the interleaving of two concurrent stage calls, every key
\* of the store holds the content its caller read, and two calls that
\* completed for the same content and filename return the same URI for a
\* key that holds exactly that content; a key is put at most once per call.
C24_ConcurrentStaging ==
    /\ \A p \in Callers :
         race[p].pc = "done" =>
            /\ race[p].blob_name \in DOMAIN blobs
            /\ blobs[race[p].blob_name] = race[p].file.bytes
            /\ race[p].uri = "gs://" \o BUCKET_NAME \o "/"
                               \o KeyOf(race[p].file.bytes, FileName(race[p].file))
    /\ \A p, q \in Callers :
         /\ race[p].pc = "done"
         /\ race[q].pc = "done"
         /\ race[p].file.bytes = race[q].file.bytes
         /\ FileName(race[p].file) = FileName(race[q].file)
         => race[p].uri = race[q].uri
    /\ \A k \in DOMAIN putCount : putCount[k] <= Cardinality(Callers)

\* both callers found the blob absent and both uploaded it: two puts of one
\* key, which holds the content, and one URI
C24_Witness ==
    /\ \A p \in Callers : race[p].pc = "done" /\ ~race[p].existing /\ race[p].uploaded
    /\ race[1].file.dir = "a"
    /\ race[2].file.dir = "b"
    /\ race[1].uri = race[2].uri
    /\ putCount[race[1].blob_name] = 2
    /\ blobs[race[1].blob_name] = BytesA


(***************************************************************************)
(* Objects stay in the bucket.                                             *)
(***************************************************************************)
\* C25: no step of upload_files_to_gcs, create_context_cache, get_cache_info
\* or delete_cache removes an object from the bucket or changes the content
\* stored under a name: every object of a state is there, unchanged, in the
\* next state, whether the call goes on, fails or deletes a cache.
C25_NoObjectRemoved ==
    [][\A k \in DOMAIN blobs : k \in DOMAIN blobs' /\ blobs'[k] = blobs[k]]_vars

\* create_context_cache staged two files and CachedContent.create then
\* failed: the call raised, no cache exists, both objects are stored
C25_Witness ==
    /\ Failed
    /\ call.op = "create"
    /\ Len(call.files) = 2
    /\ Len(call.gcs_uris) = 2
    /\ call.files[1].bytes # call.files[2].bytes
    /\ call.remote[Len(call.remote)].op = "cache.create"
    /\ ~call.remote[Len(call.remote)].ok
    /\ caches = <<>>
    /\ \A i \in 1..2 :
         /\ KeyOf(call.files[i].bytes, FileName(call.files[i])) \in DOMAIN blobs
         /\ blobs[KeyOf(call.files[i].bytes, FileName(call.files[i]))] = call.files[i].bytes

\* upload_files_to_gcs uploaded the first file of its batch and failed on
\* the second: the first object is stored
C25_WitnessBatch ==
    /\ StageFailed
    /\ Len(call.files) = 2
    /\ Len(call.gcs_uris) = 1
    /\ putCount[KeyOf(call.files[1].bytes, FileName(call.files[1]))] = 1
    /\ blobs[KeyOf(call.files[1].bytes, FileName(call.files[1]))] = call.files[1].bytes


(***************************************************************************)
(* Requests after construction.                                            *)
(***************************************************************************)
\* C26 as stated: a constructed LessonPlanRequest keeps the field values it
\* was constructed with, and they satisfy the declared bounds at every
\* later point.
C26_ImmutableRequest ==
    req.state = "accepted" =>
        /\ req.value = req.raw
        /\ ViolatedFields(req.value) = {}

\* a request constructed with 45 minutes whose lecture_duration was then
\* assigned 181
C26_Assigned ==
    /\ req.state = "accepted"
    /\ req.raw.lecture_duration = 45
    /\ req.value.lecture_duration = 181


(***************************************************************************)
(* One query per generation attempt.                                       *)
(***************************************************************************)
\* the pieces of the prompt that the request alone calls for
PromptPieces(request) ==
    9 + (IF request.lab_required THEN 1 ELSE 0)
      + (IF request.additional_context # "" THEN 1 ELSE 0)

BoundaryMessage ==
    CASE call.op = "stage" -> "GCS upload failed"
      [] call.op = "create" -> "Cache creation failed"
      [] call.op = "info" -> "Failed to retrieve cache info"
      [] call.op = "delete" -> "Cache deletion failed"
      [] OTHER -> ""

\* C28: a call of upload_files_to_gcs, create_context_cache, get_cache_info
\* or delete_cache that fails raises a ContextCacheError carrying the
\* message of that operation and, beneath it, the cause: the local check
\* that failed or the error of the remote call; a call ends by returning or
\* by raising such an error, and no remote call that failed goes unreported.
C28_OneErrorKind ==
    call.pc = "done" =>
        /\ call.result.state \in {"returned", "raised"}
        /\ call.result.state = "returned" => call.result.error = <<>>
        /\ (\E i \in 1..Len(call.remote) : ~call.remote[i].ok) => call.result.state = "raised"
        /\ call.result.state = "raised" =>
             LET chain == call.result.error
             IN  /\ Len(chain) >= 2
                 /\ chain[1].kind = "ContextCacheError"
                 /\ chain[1].msg = BoundaryMessage
                 /\ \A i \in 1..(Len(chain) - 1) : chain[i].kind = "ContextCacheError"
                 /\ chain[Len(chain)].kind \in
                      {"ContextCacheError", "TransportError", "NotFound", "IndexError",
                       "InvalidArgument"}
                 /\ chain[Len(chain)].kind = "ContextCacheError" =>
                      chain[Len(chain)].msg \in {"File not found", "Unsupported file type"}

\* create_context_cache was given a file that does not exist: the error of
\* the local check is wrapped by the staging step and again by create
C28_Witness ==
    /\ Failed
    /\ call.op = "create"
    /\ Len(call.result.error) = 3
    /\ call.result.error[1].msg = "Cache creation failed"
    /\ call.result.error[2].msg = "GCS upload failed"
    /\ call.result.error[3].msg = "File not found"

\* CachedContent.create itself failed after the files were staged
C28_WitnessRemote ==
    /\ Failed
    /\ call.op = "create"
    /\ Len(call.result.error) = 2
    /\ call.result.error[2].kind = "TransportError"
    /\ call.remote[Len(call.remote)].op = "cache.create"


(***************************************************************************)
(* Skipped files and failures of upload_to_datastore.                      *)
(***************************************************************************)
\* the names of the files of the list that exist and have a supported type
UsableNames(files) == { FileName(files[j]) : j \in Usable(files, AllowList \cup {".html"}) }

\* C29: upload_to_datastore never fails because of a file that is missing
\* or of an unsupported type.  When it returns, the mapping has an entry
\* exactly for the names of the existing, supported files, each entry the
\* name of the created document or the id of the document that already
\* existed, and the only remote calls that failed are create_document
\* calls for a document that exists.  When it fails it raises
\* DatastoreUploadError and returns no mapping, and the failure is that of
\* a remote call for an existing, supported file, or of the datastore id.
C29_SkipOrFail ==
    ds.pc = "done" =>
        /\ ds.result.state \in {"returned", "raised"}
        /\ ds.result.state = "returned" =>
             /\ DOMAIN ds.result.docs = UsableNames(ds.files)
             /\ \A j \in Usable(ds.files, AllowList \cup {".html"}) :
                  /\ ds.result.docs[FileName(ds.files[j])] \in
                       { ds.files[i].stem : i \in 1..Len(ds.files) }
                         \cup { DATASTORE_ID \o "/branches/default_branch/documents/"
                                  \o ds.files[i].stem : i \in 1..Len(ds.files) }
                  /\ ds.files[j].stem \in documents
             /\ \A i \in 1..Len(ds.remote) :
                  ~ds.remote[i].ok =>
                     ds.remote[i].op = "create_document" /\ ds.remote[i].blob \in documents
             /\ ds.result.error = <<>>
        /\ ds.result.state = "raised" =>
             /\ ds.result.docs = <<>>
             /\ ds.result.error[1].kind = "DatastoreUploadError"
             /\ ds.result.error[1].msg = "Upload failed"
             /\ Len(ds.result.error) >= 2
             /\ IF ds.files = <<>>
                THEN ds.result.error[2].kind = "AttributeError"
                ELSE /\ Len(ds.files) \in Usable(ds.files, AllowList \cup {".html"})
                     /\ ds.remote # <<>>
                     /\ ~ds.remote[Len(ds.remote)].ok

\* a list of a missing file and an existing text file: the call returns a
\* mapping with the one entry of the text file
C29_Witness ==
    /\ ds.pc = "done"
    /\ ds.result.state = "returned"
    /\ Len(ds.files) = 2
    /\ ~ds.files[1].present
    /\ ds.files[2].present
    /\ Lower(ds.files[2].suffix) \in DATASTORE_EXTENSIONS
    /\ DOMAIN ds.result.docs = {FileName(ds.files[2])}
    /\ ds.result.docs[FileName(ds.files[2])] = DocumentName(ds.files[2].stem)

\* the first file was indexed, create_document failed for the second: the
\* call raised and the entry of the first file is not returned
C29_WitnessFailed ==
    /\ ds.pc = "done"
    /\ ds.result.state = "raised"
    /\ Len(ds.files) = 2
    /\ ds.uploaded_docs # <<>>
    /\ ds.result.docs = <<>>
    /\ ds.remote[Len(ds.remote)].op = "create_document"


(***************************************************************************)
(* The settings singleton.                                                 *)
(***************************************************************************)
\* C30: a call of get_settings constructs a Settings object exactly when
\* the singleton is unset before it.  Once a construction succeeded the
\* singleton stays set to that instance, and every later call returns that
\* instance without constructing, whatever the environment has become; a
\* call whose construction fails raises and leaves the singleton unset.
C30_Singleton ==
    [][/\ _settings'.last.constructs <=> ~_settings.set
       /\ _settings'.constructed = _settings.constructed + (IF _settings.set THEN 0 ELSE 1)
       /\ _settings.set =>
            /\ _settings'.set
            /\ _settings'.instance = _settings.instance
            /\ _settings'.value = _settings.value
            /\ _settings'.last.state = "returned"
            /\ _settings'.last.instance = _settings.instance
            /\ _settings'.last.value = _settings.value
       /\ ~_settings.set /\ _settings'.last.state = "raised" =>
            /\ ~_settings'.set
            /\ _settings'.last.errors # {}
       /\ ~_settings.set /\ _settings'.last.state = "returned" =>
            /\ _settings'.set
            /\ _settings'.last.instance = _settings'.instance
            /\ _settings'.last.value = _settings'.value
            /\ _settings'.value # NoSettings]_vars

\* the first call failed, the second constructed the instance, the third
\* returned it: three calls, two constructions
C30_Witness ==
    /\ _settings.calls = 3
    /\ _settings.constructed = 2
    /\ _settings.set
    /\ _settings.instance = 2
    /\ _settings.last.state = "returned"
    /\ ~_settings.last.constructs
    /\ _settings.last.instance = 2
====
